---- MODULE Spec2Model ----
(***************************************************************************)
(* The adaptive loop controller of zap.h: zap_init / zap__init_with_config,*)
(* zap_loop_start, zap_loop_end and the ZAP_LOOP macro that drives them,   *)
(* over a timer whose reads are inputs.                                    *)
(*                                                                         *)
(* Times are uint64 nanoseconds.  Every timestamp of the model is a small  *)
(* natural number; a difference a - b of two timestamps is kept as the     *)
(* signed integer a - b, which stands for (a - b) mod 2^64: a negative     *)
(* value x is the wrapped uint64 2^64 + x, larger than every threshold     *)
(* the code compares it with.  Lt64/Ge64/Gt64 compare in that reading.     *)
(*                                                                         *)
(* The second half models the baseline store (zap_baseline_init / add /    *)
(* find / save / load over a file kept as a sequence of characters), the   *)
(* comparator zap_compare, the name and tag filters, and the program that  *)
(* ZAP_MAIN builds: zap_parse_args, runtime and static groups, benchmark   *)
(* registration and zap_finalize.  Each part has its own specification     *)
(* over the shared variables.                                              *)
(***************************************************************************)
EXTENDS Integers, Sequences, FiniteSets, TLC

(* ------------------------------------------------------------------ *)
(* Program constants (literals of zap_loop_start / zap_loop_end)      *)
(* ------------------------------------------------------------------ *)
TARGET_BATCH_NS == 1000000
LONG_BATCH_NS == 10000000
MAX_ITERATIONS == 1000000000
SHORT_SAMPLE_NS == 500000
MIN_SAMPLES == 10

\* The defaults of a benchmark's configuration.  The header defines each
\* under #ifndef, to be set by the program that includes it; these are the
\* values of the build of examples/example_quick.c.
ZAP_DEFAULT_SAMPLE_COUNT == 20
ZAP_DEFAULT_WARMUP_TIME_NS == 500000000
ZAP_DEFAULT_MEASUREMENT_TIME_NS == 1000000000

(* ------------------------------------------------------------------ *)
(* Bounds of the model                                                *)
(* ------------------------------------------------------------------ *)
\* sample capacities 0..MaxCap are run under every timer; the mock timer
\* also runs capacity MIN_SAMPLES + MaxCap
MaxCap == 1
\* largest iteration count the model lets the unclamped warmup doubling reach
IterCap == 2000000000
\* timer reads (one per zap_loop_start call) allowed before warmup completes
MaxWarmupReads == 5
\* false returns of zap_loop_start followed within a second ZAP_LOOP, or
\* within a run whose calls are made in any order
MaxFalseReturns == 3
\* ZAP_LOOPs one routine executes on the same zap_t
MaxLoops == 2
\* timer reads of a run whose calls are made in any order
MaxCallReads == 9

\* step of the mock timer of the deterministic-cost scenario
MockStep == 100
MockSteps == {MockStep}
\* The free timers.  Each takes one of three steps between two reads, and
\* between them the steps reach every branch of the two calls:
\*   1 ns (factor 10^6: multiply and clamp), 0.6 ms (factor 1: doubling),
\*   20 ms (halving); this timer strictly increases;
\*   backwards (the difference wraps), stuck (elapsed 0), 1 ms (in range).
FastSteps == {1, 600000, 20000000}
OddSteps == {0 - 600000, 0, 1000000}
\* a measurement budget no forward-running timer of the model uses up
HugeTime == 2000000000
WarmupTimes(steps) == IF steps = MockSteps THEN {1, 250} ELSE {1, 600000}
\* warmup budgets a strictly increasing timer uses up within MaxWarmupReads
ShortWarmupTimes(steps) == IF steps = MockSteps THEN {1, 250} ELSE {1, 3}
\* the free timers run capacities below MIN_SAMPLES, where the elapsed-time
\* check cannot end the run: the tight budgets are run under the mock
MeasurementTimes(steps) == IF steps = MockSteps THEN {1, 2000, HugeTime} ELSE {HugeTime}
SampleCounts(steps) == (0 .. MaxCap) \cup (IF steps = MockSteps THEN {MIN_SAMPLES + MaxCap} ELSE {})

VARIABLES
    c,               \* the zap_t of the run
    clock,           \* last value zap_now_ns returned
    reads,           \* number of zap_now_ns calls so far
    timer_steps,     \* the steps the timer of this run can take
    pc,              \* position in ZAP_LOOP: "outer", "start", "body", "end", "exit"; "calls" outside the macro
    crit_done,       \* _crit_done of ZAP_LOOP
    loop_no,         \* which ZAP_LOOP of the routine is executing
    ret,             \* last return value of zap_loop_start (FALSE while last_call is "init")
    false_returns,   \* how often zap_loop_start returned false in the current ZAP_LOOP
    exit_by,         \* which check made zap_loop_start return false last
    budget_expired,  \* the elapsed-time check has seen elapsed >= measurement_time_ns
    batch_n,         \* the iteration count the inner for-loop of the current batch ran with
    sample_n,        \* batch_n of the batch each stored sample came from
    last_start_warm, \* the latest zap_loop_start call was made while warmup_complete was false
    last_call,       \* "init", "start" or "end": the latest controller call
    baseline,        \* a zap_baseline_t; zap_g_config.baseline while a benchmark program runs
    file,            \* the baseline file at baseline_path: whether it exists, and its characters
    op,              \* the latest baseline-store or comparator call, with its arguments and result
    cfg,             \* zap_g_config: the options zap_parse_args stored and has_regression
    g,               \* the zap_runtime_group_t the program is registering benchmarks in
    out,             \* what the reporters printed so far, in order
    hpc,             \* position of the benchmark program: "args", "run", "group" or "done"
    hist,            \* what the run did: the file it started with, the routines executed, the exit status
    env              \* what the program is run with: the command lines, the statistics its routines give

loopVars == << c, clock, reads, timer_steps, pc, crit_done, loop_no, ret, false_returns,
               exit_by, budget_expired, batch_n, sample_n, last_start_warm, last_call >>

harnessVars == << baseline, file, op, cfg, g, out, hpc, hist, env >>

vars == << c, clock, reads, timer_steps, pc, crit_done, loop_no, ret, false_returns,
           exit_by, budget_expired, batch_n, sample_n, last_start_warm, last_call,
           baseline, file, op, cfg, g, out, hpc, hist, env >>

(* ------------------------------------------------------------------ *)
(* uint64 arithmetic                                                  *)
(* ------------------------------------------------------------------ *)
Sub64(a, b) == a - b
Lt64(x, t) == x >= 0 /\ x < t
Ge64(x, t) == x < 0 \/ x >= t
Gt64(x, t) == x < 0 \/ x > t

\* iterations *= factor followed by the clamp to MAX_ITERATIONS; the product
\* is below 2^64 for every iteration count of the model, and it exceeds
\* MAX_ITERATIONS exactly when iterations > MAX_ITERATIONS \div factor
ClampedMul(iterations, factor) ==
    IF iterations > MAX_ITERATIONS \div factor THEN MAX_ITERATIONS ELSE iterations * factor

\* (double)elapsed / (double)c->iterations, kept as the exact quotient
TimePerIter(elapsed, iterations) == [num |-> elapsed, den |-> iterations]

(* ------------------------------------------------------------------ *)
(* zap__init_with_config / zap_init                                   *)
(* ------------------------------------------------------------------ *)
\* a zap_t after memset, with the configuration it is given; --min-iters is
\* not given, so the run starts at one iteration
InitialState(config) ==
    [ iterations      |-> 1,
      current_iter    |-> 0,
      start_time      |-> 0,
      samples         |-> << >>,
      sample_count    |-> 0,
      sample_capacity |-> config.sample_count,
      warmup_complete |-> FALSE,
      measuring       |-> FALSE,
      config          |-> config ]

\* config is the configuration of the group, global the zap_g_config whose
\* CLI overrides, where positive, replace its fields
zap__init_with_config(config, global) ==
    InitialState(
        [ warmup_time_ns |-> IF global.cli_warmup_ns > 0 THEN global.cli_warmup_ns
                             ELSE config.warmup_time_ns,
          measurement_time_ns |-> IF global.cli_time_ns > 0 THEN global.cli_time_ns
                                  ELSE config.measurement_time_ns,
          sample_count |-> IF global.cli_samples > 0 THEN global.cli_samples
                           ELSE config.sample_count ])

\* zap_init: the default configuration, with the CLI overrides where positive
zap_init(global) ==
    InitialState(
        [ warmup_time_ns |-> IF global.cli_warmup_ns > 0 THEN global.cli_warmup_ns
                             ELSE ZAP_DEFAULT_WARMUP_TIME_NS,
          measurement_time_ns |-> IF global.cli_time_ns > 0 THEN global.cli_time_ns
                                  ELSE ZAP_DEFAULT_MEASUREMENT_TIME_NS,
          sample_count |-> IF global.cli_samples > 0 THEN global.cli_samples
                           ELSE ZAP_DEFAULT_SAMPLE_COUNT ])

(* ------------------------------------------------------------------ *)
(* zap_loop_start                                                     *)
(* ------------------------------------------------------------------ *)
\* the warmup calibration doubling whenever the batch was short, whatever the factor
Calibrate_always_double(iterations, batch_elapsed) ==
    IF batch_elapsed > 0 /\ Lt64(batch_elapsed, TARGET_BATCH_NS)
    THEN iterations * 2
    ELSE IF Gt64(batch_elapsed, LONG_BATCH_NS)
         THEN (IF iterations > 2 THEN iterations \div 2 ELSE 1)
         ELSE iterations

\* the warmup calibration of c->iterations from the previous batch's time
Calibrate(iterations, batch_elapsed) ==
    IF batch_elapsed > 0 /\ Lt64(batch_elapsed, TARGET_BATCH_NS)
    THEN LET factor == TARGET_BATCH_NS \div batch_elapsed
         IN  IF factor > 1 THEN ClampedMul(iterations, factor)
                           ELSE iterations * 2
    ELSE IF Gt64(batch_elapsed, LONG_BATCH_NS)
         THEN (IF iterations > 2 THEN iterations \div 2 ELSE 1)
         ELSE iterations

\* TimeIsUp without the minimum-sample condition
TimeIsUp_budget_only(s, now) ==
    Ge64(Sub64(now, s.start_time), s.config.measurement_time_ns)

\* the elapsed-time check of the measurement phase
TimeIsUp(s, now) ==
    /\ Ge64(Sub64(now, s.start_time), s.config.measurement_time_ns)
    /\ s.sample_count >= MIN_SAMPLES

\* SamplesDone stopping one sample early
SamplesDone_one_early(s) == s.sample_count + 1 >= s.sample_capacity

\* the sample-capacity check of the measurement phase
SamplesDone(s) == s.sample_count >= s.sample_capacity

\* zap_loop_start resetting the phase flag for a next run when the samples
\* are complete
zap_loop_start_reset_on_done(s, now, now2) ==
    IF ~s.warmup_complete
    THEN IF s.start_time = 0
         THEN [ c |-> [s EXCEPT !.start_time = now, !.current_iter = now],
                ret |-> TRUE, reads |-> 1, branch |-> "warmup_first" ]
         ELSE LET batch_elapsed == Sub64(now, s.current_iter)
                  total_elapsed == Sub64(now, s.start_time)
                  complete == Ge64(total_elapsed, s.config.warmup_time_ns)
              IN  [ c |-> [s EXCEPT !.iterations = Calibrate(@, batch_elapsed),
                                    !.warmup_complete = IF complete THEN TRUE ELSE @,
                                    !.start_time = IF complete THEN 0 ELSE @,
                                    !.measuring = IF complete THEN FALSE ELSE @,
                                    !.current_iter = now],
                    ret |-> TRUE, reads |-> 1, branch |-> "warmup" ]
    ELSE IF SamplesDone(s)
         THEN [ c |-> [s EXCEPT !.warmup_complete = FALSE],
                ret |-> FALSE, reads |-> 0, branch |-> "capacity" ]
         ELSE IF s.start_time = 0
              THEN [ c |-> [s EXCEPT !.start_time = now, !.measuring = TRUE,
                                     !.current_iter = now2],
                     ret |-> TRUE, reads |-> 2, branch |-> "measure_first" ]
              ELSE IF TimeIsUp(s, now)
                   THEN [ c |-> s, ret |-> FALSE, reads |-> 1, branch |-> "time" ]
                   ELSE [ c |-> [s EXCEPT !.measuring = TRUE, !.current_iter = now2],
                          ret |-> TRUE, reads |-> 2, branch |-> "measure" ]

\* zap_loop_start taking the batch-entry timestamp from its first timer read
zap_loop_start_entry_now(s, now, now2) ==
    IF ~s.warmup_complete
    THEN IF s.start_time = 0
         THEN [ c |-> [s EXCEPT !.start_time = now, !.current_iter = now],
                ret |-> TRUE, reads |-> 1, branch |-> "warmup_first" ]
         ELSE LET batch_elapsed == Sub64(now, s.current_iter)
                  total_elapsed == Sub64(now, s.start_time)
                  complete == Ge64(total_elapsed, s.config.warmup_time_ns)
              IN  [ c |-> [s EXCEPT !.iterations = Calibrate(@, batch_elapsed),
                                    !.warmup_complete = IF complete THEN TRUE ELSE @,
                                    !.start_time = IF complete THEN 0 ELSE @,
                                    !.measuring = IF complete THEN FALSE ELSE @,
                                    !.current_iter = now],
                    ret |-> TRUE, reads |-> 1, branch |-> "warmup" ]
    ELSE IF SamplesDone(s)
         THEN [ c |-> s, ret |-> FALSE, reads |-> 0, branch |-> "capacity" ]
         ELSE IF s.start_time = 0
              THEN [ c |-> [s EXCEPT !.start_time = now, !.measuring = TRUE,
                                     !.current_iter = now],
                     ret |-> TRUE, reads |-> 2, branch |-> "measure_first" ]
              ELSE IF TimeIsUp(s, now)
                   THEN [ c |-> s, ret |-> FALSE, reads |-> 1, branch |-> "time" ]
                   ELSE [ c |-> [s EXCEPT !.measuring = TRUE, !.current_iter = now],
                          ret |-> TRUE, reads |-> 2, branch |-> "measure" ]

\* zap_loop_start clearing start_time when the measurement time is used up
zap_loop_start_restart_on_timeout(s, now, now2) ==
    IF ~s.warmup_complete
    THEN IF s.start_time = 0
         THEN [ c |-> [s EXCEPT !.start_time = now, !.current_iter = now],
                ret |-> TRUE, reads |-> 1, branch |-> "warmup_first" ]
         ELSE LET batch_elapsed == Sub64(now, s.current_iter)
                  total_elapsed == Sub64(now, s.start_time)
                  complete == Ge64(total_elapsed, s.config.warmup_time_ns)
              IN  [ c |-> [s EXCEPT !.iterations = Calibrate(@, batch_elapsed),
                                    !.warmup_complete = IF complete THEN TRUE ELSE @,
                                    !.start_time = IF complete THEN 0 ELSE @,
                                    !.measuring = IF complete THEN FALSE ELSE @,
                                    !.current_iter = now],
                    ret |-> TRUE, reads |-> 1, branch |-> "warmup" ]
    ELSE IF SamplesDone(s)
         THEN [ c |-> s, ret |-> FALSE, reads |-> 0, branch |-> "capacity" ]
         ELSE IF s.start_time = 0
              THEN [ c |-> [s EXCEPT !.start_time = now, !.measuring = TRUE,
                                     !.current_iter = now2],
                     ret |-> TRUE, reads |-> 2, branch |-> "measure_first" ]
              ELSE IF TimeIsUp(s, now)
                   THEN [ c |-> [s EXCEPT !.start_time = 0],
                          ret |-> FALSE, reads |-> 1, branch |-> "time" ]
                   ELSE [ c |-> [s EXCEPT !.measuring = TRUE, !.current_iter = now2],
                          ret |-> TRUE, reads |-> 2, branch |-> "measure" ]

\* now is the first zap_now_ns() of the call, now2 the second one (taken
\* only when a measurement batch is opened)
zap_loop_start(s, now, now2) ==
    IF ~s.warmup_complete
    THEN IF s.start_time = 0
         THEN [ c |-> [s EXCEPT !.start_time = now, !.current_iter = now],
                ret |-> TRUE, reads |-> 1, branch |-> "warmup_first" ]
         ELSE LET batch_elapsed == Sub64(now, s.current_iter)
                  total_elapsed == Sub64(now, s.start_time)
                  complete == Ge64(total_elapsed, s.config.warmup_time_ns)
              IN  [ c |-> [s EXCEPT !.iterations = Calibrate(@, batch_elapsed),
                                    !.warmup_complete = IF complete THEN TRUE ELSE @,
                                    !.start_time = IF complete THEN 0 ELSE @,
                                    !.measuring = IF complete THEN FALSE ELSE @,
                                    !.current_iter = now],
                    ret |-> TRUE, reads |-> 1, branch |-> "warmup" ]
    ELSE IF SamplesDone(s)
         THEN [ c |-> s, ret |-> FALSE, reads |-> 0, branch |-> "capacity" ]
         ELSE IF s.start_time = 0
              THEN [ c |-> [s EXCEPT !.start_time = now, !.measuring = TRUE,
                                     !.current_iter = now2],
                     ret |-> TRUE, reads |-> 2, branch |-> "measure_first" ]
              ELSE IF TimeIsUp(s, now)
                   THEN [ c |-> s, ret |-> FALSE, reads |-> 1, branch |-> "time" ]
                   ELSE [ c |-> [s EXCEPT !.measuring = TRUE, !.current_iter = now2],
                          ret |-> TRUE, reads |-> 2, branch |-> "measure" ]

(* ------------------------------------------------------------------ *)
(* zap_loop_end                                                       *)
(* ------------------------------------------------------------------ *)
\* the fine-tuning of c->iterations after a sample
FineTune(iterations, elapsed) ==
    IF Lt64(elapsed, SHORT_SAMPLE_NS) THEN ClampedMul(iterations, 2) ELSE iterations

\* zap_loop_end storing a sample on every call: no early return, no test
\* for room in the buffer
zap_loop_end_always(s, end) ==
    LET elapsed == Sub64(end, s.current_iter)
        time_per_iter == TimePerIter(elapsed, s.iterations)
    IN  [ c |-> [s EXCEPT !.samples = Append(@, time_per_iter),
                          !.sample_count = @ + 1,
                          !.iterations = FineTune(@, elapsed),
                          !.measuring = FALSE],
          reads |-> 1, stored |-> TRUE ]

\* zap_loop_end returning early only while warmup_complete is false
zap_loop_end_warm_only(s, end) ==
    IF ~s.warmup_complete
    THEN [ c |-> s, reads |-> 0, stored |-> FALSE ]
    ELSE LET elapsed == Sub64(end, s.current_iter)
             time_per_iter == TimePerIter(elapsed, s.iterations)
             room == s.sample_count < s.sample_capacity
         IN  [ c |-> [s EXCEPT !.samples = IF room THEN Append(@, time_per_iter) ELSE @,
                               !.sample_count = IF room THEN @ + 1 ELSE @,
                               !.iterations = FineTune(@, elapsed),
                               !.measuring = FALSE],
               reads |-> 1, stored |-> room ]

\* zap_loop_end fine-tuning c->iterations before it divides
zap_loop_end_tune_first(s, end) ==
    IF ~s.measuring \/ ~s.warmup_complete
    THEN [ c |-> s, reads |-> 0, stored |-> FALSE ]
    ELSE LET elapsed == Sub64(end, s.current_iter)
             time_per_iter == TimePerIter(elapsed, FineTune(s.iterations, elapsed))
             room == s.sample_count < s.sample_capacity
         IN  [ c |-> [s EXCEPT !.samples = IF room THEN Append(@, time_per_iter) ELSE @,
                               !.sample_count = IF room THEN @ + 1 ELSE @,
                               !.iterations = FineTune(@, elapsed),
                               !.measuring = FALSE],
               reads |-> 1, stored |-> room ]

\* zap_loop_end returning early only when both flags are false (&& for ||)
zap_loop_end_both_false(s, end) ==
    IF ~s.measuring /\ ~s.warmup_complete
    THEN [ c |-> s, reads |-> 0, stored |-> FALSE ]
    ELSE LET elapsed == Sub64(end, s.current_iter)
             time_per_iter == TimePerIter(elapsed, s.iterations)
             room == s.sample_count < s.sample_capacity
         IN  [ c |-> [s EXCEPT !.samples = IF room THEN Append(@, time_per_iter) ELSE @,
                               !.sample_count = IF room THEN @ + 1 ELSE @,
                               !.iterations = FineTune(@, elapsed),
                               !.measuring = FALSE],
               reads |-> 1, stored |-> room ]

\* end is the zap_now_ns() of the call (not taken on the early return)
zap_loop_end(s, end) ==
    IF ~s.measuring \/ ~s.warmup_complete
    THEN [ c |-> s, reads |-> 0, stored |-> FALSE ]
    ELSE LET elapsed == Sub64(end, s.current_iter)
             time_per_iter == TimePerIter(elapsed, s.iterations)
             room == s.sample_count < s.sample_capacity
         IN  [ c |-> [s EXCEPT !.samples = IF room THEN Append(@, time_per_iter) ELSE @,
                               !.sample_count = IF room THEN @ + 1 ELSE @,
                               !.iterations = FineTune(@, elapsed),
                               !.measuring = FALSE],
               reads |-> 1, stored |-> room ]

(* ------------------------------------------------------------------ *)
(* The benchmark program around the loop controller, before it starts *)
(* ------------------------------------------------------------------ *)
\* a zap_baseline_t with every byte zero: the baseline member of the static zap_g_config
EmptyBaseline == [entries |-> << >>, count |-> 0, capacity |-> 0]

\* no file at baseline_path: fopen(path, "r") returns NULL
NoFile == [exists |-> FALSE, text |-> << >>]

\* no baseline-store call made yet
IdleOp ==
    [ kind |-> "none", name |-> << >>,
      stats |-> [mean |-> 0, std_dev |-> 0, ci_lower |-> 0, ci_upper |-> 0],
      ret |-> FALSE, before |-> EmptyBaseline, n |-> 0 ]

\* the static zap_g_config before zap_parse_args: every member zero
ZeroConfig ==
    [ filter |-> [null |-> TRUE, pattern |-> << >>],
      fail_threshold |-> 0,
      save_baseline |-> FALSE,
      compare |-> FALSE,
      dry_run |-> FALSE,
      cli_tags |-> << >>,
      cli_samples |-> 0,
      cli_warmup_ns |-> 0,
      cli_time_ns |-> 0,
      has_regression |-> FALSE ]

\* no runtime group opened: the static zap__current_group, every member zero
NoGroup ==
    [ gid |-> 0, active |-> FALSE, header_printed |-> FALSE, tags |-> << >>,
      setup |-> FALSE, teardown |-> FALSE, setup_called |-> FALSE,
      config |-> [warmup_time_ns |-> 0, measurement_time_ns |-> 0, sample_count |-> 0] ]

\* nothing run yet
NoHistory ==
    [ prior |-> NoFile, loaded |-> EmptyBaseline, ran |-> << >>, regressed |-> FALSE,
      exit |-> 0 - 1, calls |-> 0, opened_at |-> 0, inserted |-> << >>, has_saved |-> FALSE, saved |-> EmptyBaseline ]

\* no program to run
NoEnv == [cli |-> {}, stats |-> {}]

HarnessIdle ==
    /\ baseline = EmptyBaseline
    /\ file = NoFile
    /\ op = IdleOp
    /\ cfg = ZeroConfig
    /\ g = NoGroup
    /\ out = << >>
    /\ hpc = "idle"
    /\ hist = NoHistory
    /\ env = NoEnv

(* ------------------------------------------------------------------ *)
(* Initial states                                                     *)
(* ------------------------------------------------------------------ *)
Configs(steps, warmups) ==
    [ warmup_time_ns : warmups,
      measurement_time_ns : MeasurementTimes(steps),
      sample_count : SampleCounts(steps) ]

InitWith(kinds, short, where) ==
    /\ timer_steps \in kinds
    /\ \E config \in Configs(timer_steps,
                              IF short THEN ShortWarmupTimes(timer_steps)
                                       ELSE WarmupTimes(timer_steps)) :
           c = zap__init_with_config(config, ZeroConfig)
    /\ clock = 0
    /\ reads = 0
    /\ pc = where
    /\ crit_done = 0
    /\ loop_no = 1
    /\ ret = FALSE
    /\ false_returns = 0
    /\ exit_by = "none"
    /\ budget_expired = FALSE
    /\ batch_n = 0
    /\ sample_n = << >>
    /\ last_start_warm = FALSE
    /\ last_call = "init"
    /\ HarnessIdle

(* ------------------------------------------------------------------ *)
(* The two controller calls, with the timer reads they make           *)
(* ------------------------------------------------------------------ *)
\* the warmup doubling stays within the iteration counts of the model
DoublingFits(s, now) ==
    LET batch_elapsed == Sub64(now, s.current_iter)
    IN  (/\ ~s.warmup_complete
         /\ s.start_time # 0
         /\ batch_elapsed > 0
         /\ Lt64(batch_elapsed, TARGET_BATCH_NS)
         /\ TARGET_BATCH_NS \div batch_elapsed <= 1)
        => s.iterations <= IterCap \div 2

StartCall(s1, s2) ==
    LET now == clock + s1
        now2 == now + s2
    IN  /\ now >= 0
        /\ now2 >= 0
        /\ ~c.warmup_complete => reads < MaxWarmupReads
        /\ DoublingFits(c, now)
        /\ LET r == zap_loop_start(c, now, now2)
           IN  /\ c' = r.c
               /\ ret' = r.ret
               /\ clock' = (IF r.reads = 0 THEN clock ELSE IF r.reads = 1 THEN now ELSE now2)
               /\ reads' = reads + r.reads
               /\ false_returns' = IF r.ret THEN false_returns ELSE false_returns + 1
               /\ exit_by' = IF r.ret THEN exit_by ELSE r.branch
               /\ budget_expired' =
                      (\/ budget_expired
                       \/ /\ r.branch \in {"time", "measure"}
                          /\ Ge64(Sub64(now, c.start_time), c.config.measurement_time_ns))
        /\ last_start_warm' = ~c.warmup_complete
        /\ last_call' = "start"
        /\ UNCHANGED << timer_steps, batch_n, sample_n >>

EndCall(s1) ==
    LET end == clock + s1
        r == zap_loop_end(c, end)
    IN  /\ end >= 0
        /\ c' = r.c
        /\ clock' = (IF r.reads = 0 THEN clock ELSE end)
        /\ reads' = reads + r.reads
        /\ sample_n' = IF r.stored THEN Append(sample_n, batch_n) ELSE sample_n
        /\ last_call' = "end"
        /\ UNCHANGED << timer_steps, ret, false_returns, exit_by, budget_expired,
                        batch_n, last_start_warm >>

(* ------------------------------------------------------------------ *)
(* ZAP_LOOP                                                           *)
(*   for (int _crit_done = 0; !_crit_done; )                          *)
(*     for (; zap_loop_start(c); _crit_done = 1, zap_loop_end(c))     *)
(*       for (uint64_t _crit_i = 0; _crit_i < (c)->iterations; ++_crit_i) *)
(* ------------------------------------------------------------------ *)
\* an increment expression that leaves _crit_done alone
CritDoneAfterBatch_unset(d) == d

\* the value the increment expression of the middle for-loop gives _crit_done
CritDoneAfterBatch(d) == 1

\* the test !_crit_done of the outer for-loop
LoopOuter ==
    /\ pc = "outer"
    /\ pc' = IF crit_done = 0 THEN "start" ELSE "exit"
    /\ UNCHANGED << c, clock, reads, timer_steps, crit_done, loop_no, ret, false_returns,
                    exit_by, budget_expired, batch_n, sample_n, last_start_warm, last_call >>
    /\ UNCHANGED harnessVars

\* the test zap_loop_start(c) of the middle for-loop
LoopStart ==
    /\ pc = "start"
    /\ loop_no > 1 => false_returns < MaxFalseReturns
    /\ \E s1, s2 \in timer_steps : StartCall(s1, s2)
    /\ pc' = IF ret' THEN "body" ELSE "outer"
    /\ UNCHANGED << crit_done, loop_no >>
    /\ UNCHANGED harnessVars

\* the innermost for-loop: (c)->iterations executions of the user's body
LoopBody ==
    /\ pc = "body"
    /\ batch_n' = c.iterations
    /\ pc' = "end"
    /\ UNCHANGED << c, clock, reads, timer_steps, crit_done, loop_no, ret, false_returns,
                    exit_by, budget_expired, sample_n, last_start_warm, last_call >>
    /\ UNCHANGED harnessVars

\* the increment _crit_done = 1, zap_loop_end(c) of the middle for-loop
LoopEnd ==
    /\ pc = "end"
    /\ crit_done' = CritDoneAfterBatch(crit_done)
    /\ \E s1 \in timer_steps : EndCall(s1)
    /\ pc' = "start"
    /\ UNCHANGED loop_no
    /\ UNCHANGED harnessVars

\* the routine executes another ZAP_LOOP on the same zap_t
LoopAgain ==
    /\ pc = "exit"
    /\ loop_no < MaxLoops
    /\ pc' = "outer"
    /\ crit_done' = 0
    /\ loop_no' = loop_no + 1
    /\ false_returns' = 0
    /\ UNCHANGED << c, clock, reads, timer_steps, ret, exit_by, budget_expired,
                    batch_n, sample_n, last_start_warm, last_call >>
    /\ UNCHANGED harnessVars

(* ------------------------------------------------------------------ *)
(* zap_loop_start and zap_loop_end called in any order                *)
(* ------------------------------------------------------------------ *)
CallStart ==
    /\ pc = "calls"
    /\ reads < MaxCallReads
    /\ false_returns < MaxFalseReturns
    /\ \E s1, s2 \in timer_steps : StartCall(s1, s2)
    /\ UNCHANGED << pc, crit_done, loop_no >>
    /\ UNCHANGED harnessVars

CallEnd ==
    /\ pc = "calls"
    /\ reads < MaxCallReads
    /\ \E s1 \in timer_steps : EndCall(s1)
    /\ UNCHANGED << pc, crit_done, loop_no >>
    /\ UNCHANGED harnessVars

(* ------------------------------------------------------------------ *)
(* Calls made after the ZAP_LOOP of a run has finished                *)
(* ------------------------------------------------------------------ *)
\* between two reads made after the run the timer takes one of its steps or stands still
LaterSteps == timer_steps \cup { 0 }

LaterStart ==
    /\ pc = "exit"
    /\ false_returns < MaxFalseReturns
    /\ \E s1, s2 \in LaterSteps : StartCall(s1, s2)
    /\ UNCHANGED << pc, crit_done, loop_no >>
    /\ UNCHANGED harnessVars

LaterEnd ==
    /\ pc = "exit"
    /\ \E s1 \in LaterSteps : EndCall(s1)
    /\ UNCHANGED << pc, crit_done, loop_no >>
    /\ UNCHANGED harnessVars

(* ------------------------------------------------------------------ *)
(* Text: C strings and file contents are sequences of characters      *)
(* ------------------------------------------------------------------ *)
\* sizeof(e->name) of a zap_baseline_entry_t
NAME_SIZE == 256
\* sizeof(line) in zap_baseline_load
LINE_SIZE == 512
\* the initial capacity zap_baseline_init allocates
BASELINE_CAPACITY == 64
\* the number of characters of the header strncmp compares
HEADER_CMP_LEN == 15

\* the literal "zap-baseline v1"
HeaderText == << "z", "a", "p", "-", "b", "a", "s", "e", "l", "i", "n", "e", " ", "v", "1" >>
NewLine == << "\n" >>
Pipe == << "|" >>

DigitChars == << "0", "1", "2", "3", "4", "5", "6", "7", "8", "9" >>
DigitSet == { DigitChars[i] : i \in 1 .. 10 }
\* what isspace accepts among the characters of the model
Whitespace == { " ", "\n" }

Min(x, y) == IF x < y THEN x ELSE y

\* the smallest index of t from `from' on whose character is not in `set'; Len(t) + 1 if none
SkipWhile(t, from, set) ==
    LET stops == { i \in from .. Len(t) : t[i] \notin set }
    IN  IF stops = {} THEN Len(t) + 1
        ELSE CHOOSE i \in stops : \A j \in stops : i <= j

\* the index of the first character ch of t, 0 if there is none: strchr
strchr(t, ch) ==
    LET hits == { i \in 1 .. Len(t) : t[i] = ch }
    IN  IF hits = {} THEN 0
        ELSE CHOOSE i \in hits : \A j \in hits : i <= j

\* strncpy(dst, src, n) followed by dst[n] = '\0': the first n characters of src
strncpy(src, n) == SubSeq(src, 1, Min(Len(src), n))

\* strncmp(s, t, n) == 0: s and t agree up to their ends or to n characters
strncmp_eq(s, t, n) == strncpy(s, n) = strncpy(t, n)

RECURSIVE DecimalDigits(_)
\* the decimal digits of a natural number
DecimalDigits(n) ==
    IF n < 10 THEN << DigitChars[n + 1] >>
    ELSE DecimalDigits(n \div 10) \o << DigitChars[(n % 10) + 1] >>

\* printf("%.17g") of a double with an integral value of at most 17 digits
FormatG17(v) == IF v < 0 THEN << "-" >> \o DecimalDigits(0 - v) ELSE DecimalDigits(v)

RECURSIVE DigitsValue(_)
\* the number a run of decimal digits denotes
DigitsValue(ds) ==
    IF ds = << >> THEN 0
    ELSE 10 * DigitsValue(SubSeq(ds, 1, Len(ds) - 1))
         + ((CHOOSE i \in 1 .. 10 : DigitChars[i] = ds[Len(ds)]) - 1)

\* the digits of a %lf conversion from position p on, after the sign: no
\* digit is a matching failure
ScanDigits(t, p, negative, stop) ==
    [ ok |-> stop > p,
      value |-> IF negative THEN 0 - DigitsValue(SubSeq(t, p, stop - 1))
                ELSE DigitsValue(SubSeq(t, p, stop - 1)),
      next |-> stop ]

\* the optional sign of a %lf conversion at position p
ScanSign(t, p) ==
    IF p <= Len(t) /\ t[p] \in { "-", "+" }
    THEN ScanDigits(t, p + 1, t[p] = "-", SkipWhile(t, p + 1, DigitSet))
    ELSE ScanDigits(t, p, FALSE, SkipWhile(t, p, DigitSet))

\* one %lf conversion of sscanf at position p of t: white space is skipped,
\* then an optional sign and a run of digits are read
ScanDouble(t, p) == ScanSign(t, SkipWhile(t, p, Whitespace))

RECURSIVE ScanFields(_, _, _)
\* the values k directives %lf, separated by the literal '|', convert from position p on
ScanFields(t, p, k) ==
    LET d == ScanDouble(t, p)
    IN  IF ~d.ok THEN << >>
        ELSE IF k = 1 THEN << d.value >>
        ELSE IF d.next <= Len(t) /\ t[d.next] = "|"
             THEN << d.value >> \o ScanFields(t, d.next + 1, k - 1)
        ELSE << d.value >>

\* sscanf(p, "%lf|%lf|%lf|%lf", ...): the values converted; their number is the result
sscanf4(t) == ScanFields(t, 1, 4)

\* the number of characters one fgets(line, LINE_SIZE, f) takes from the rest of the file
fgets_len(rest) ==
    LET nl == strchr(SubSeq(rest, 1, Min(Len(rest), LINE_SIZE - 1)), "\n")
    IN  IF nl > 0 THEN nl ELSE Min(Len(rest), LINE_SIZE - 1)

RECURSIVE fgets_all(_)
\* the lines successive fgets calls return until end of file
fgets_all(rest) ==
    IF rest = << >> THEN << >>
    ELSE << SubSeq(rest, 1, fgets_len(rest)) >>
         \o fgets_all(SubSeq(rest, fgets_len(rest) + 1, Len(rest)))

(* ------------------------------------------------------------------ *)
(* The baseline store                                                 *)
(* ------------------------------------------------------------------ *)
zap_baseline_init == [entries |-> << >>, count |-> 0, capacity |-> BASELINE_CAPACITY]

zap_baseline_free(s) == [entries |-> << >>, count |-> 0, capacity |-> 0]

\* the index of the first entry whose name is `name', 0 for NULL
zap_baseline_find(s, name) ==
    LET hits == { i \in 1 .. s.count : s.entries[i].name = name }
    IN  IF hits = {} THEN 0
        ELSE CHOOSE i \in hits : \A j \in hits : i <= j

\* the capacity after the growth step of zap_baseline_add
GrownForAdd(s) == IF s.count >= s.capacity THEN s.capacity * 2 ELSE s.capacity

zap_baseline_add(s, name, stats) ==
    LET i == zap_baseline_find(s, name)
    IN  IF i > 0
        THEN [ s EXCEPT !.entries[i] =
                   [ name |-> @.name, mean |-> stats.mean, std_dev |-> stats.std_dev,
                     ci_lower |-> stats.ci_lower, ci_upper |-> stats.ci_upper ] ]
        ELSE [ entries |-> Append(s.entries,
                   [ name |-> strncpy(name, NAME_SIZE - 1),
                     mean |-> stats.mean, std_dev |-> stats.std_dev,
                     ci_lower |-> stats.ci_lower, ci_upper |-> stats.ci_upper ]),
               count |-> s.count + 1,
               capacity |-> GrownForAdd(s) ]

\* one line of the file: fprintf(f, "%s|%.17g|%.17g|%.17g|%.17g\n", ...)
EntryLine(e) ==
    e.name \o Pipe \o FormatG17(e.mean) \o Pipe \o FormatG17(e.std_dev) \o Pipe
           \o FormatG17(e.ci_lower) \o Pipe \o FormatG17(e.ci_upper) \o NewLine

RECURSIVE EntryLines(_)
EntryLines(es) ==
    IF es = << >> THEN << >> ELSE EntryLine(Head(es)) \o EntryLines(Tail(es))

\* zap_baseline_save with the header left out
zap_baseline_save_no_header(s) ==
    [ file |-> [exists |-> TRUE, text |-> EntryLines(s.entries)],
      ret |-> TRUE ]

\* the file zap_baseline_save writes (fopen(path, "w") succeeding) and its result
zap_baseline_save(s) ==
    [ file |-> [exists |-> TRUE, text |-> HeaderText \o NewLine \o EntryLines(s.entries)],
      ret |-> TRUE ]

\* the capacity after the growth step of zap_baseline_load
GrownForLoad(s) ==
    IF s.count >= s.capacity
    THEN (IF s.capacity # 0 THEN s.capacity * 2 ELSE BASELINE_CAPACITY)
    ELSE s.capacity

\* the body of the while loop of zap_baseline_load for one line
LoadLine(s, line) ==
    LET sep == strchr(line, "|")
        name_len == IF sep - 1 >= NAME_SIZE THEN NAME_SIZE - 1 ELSE sep - 1
        scan == sscanf4(SubSeq(line, sep + 1, Len(line)))
    IN  IF sep = 0 THEN s
        ELSE IF Len(scan) # 4 THEN s
        ELSE [ entries |-> Append(s.entries,
                   [ name |-> SubSeq(line, 1, name_len),
                     mean |-> scan[1], std_dev |-> scan[2],
                     ci_lower |-> scan[3], ci_upper |-> scan[4] ]),
               count |-> s.count + 1,
               capacity |-> GrownForLoad(s) ]

RECURSIVE LoadLines(_, _)
LoadLines(s, lines) ==
    IF lines = << >> THEN s ELSE LoadLines(LoadLine(s, Head(lines)), Tail(lines))

\* zap_baseline_load that gives up on a missing file only after initialising the store anew
zap_baseline_load_reinit(s, f) ==
    LET lines == fgets_all(f.text)
    IN  IF ~f.exists THEN [b |-> zap_baseline_init, ret |-> TRUE]
        ELSE IF lines = << >> THEN [b |-> s, ret |-> FALSE]
        ELSE IF ~strncmp_eq(lines[1], HeaderText, HEADER_CMP_LEN) THEN [b |-> s, ret |-> FALSE]
        ELSE [b |-> LoadLines(s, Tail(lines)), ret |-> TRUE]

\* the store after zap_baseline_load(s, path) with file f at path, and its result
zap_baseline_load(s, f) ==
    LET lines == fgets_all(f.text)
    IN  IF ~f.exists THEN [b |-> s, ret |-> FALSE]
        ELSE IF lines = << >> THEN [b |-> s, ret |-> FALSE]
        ELSE IF ~strncmp_eq(lines[1], HeaderText, HEADER_CMP_LEN) THEN [b |-> s, ret |-> FALSE]
        ELSE [b |-> LoadLines(s, Tail(lines)), ret |-> TRUE]

(* ------------------------------------------------------------------ *)
(* Calls on a baseline store, in any order                            *)
(* ------------------------------------------------------------------ *)
\* the number of store calls one behaviour makes
MaxStoreOps == 4

NameA == << "a" >>
NameB == << "b" >>
\* a name with the field separator in it
NamePipe == << "a", "|", "1" >>
\* a name that fills the whole name array, leaving no room for the terminator
LongName == [i \in 1 .. NAME_SIZE |-> "a"]
StoreNames == { NameA, NamePipe, LongName }

Stats(mean, std_dev, ci_lower, ci_upper) ==
    [mean |-> mean, std_dev |-> std_dev, ci_lower |-> ci_lower, ci_upper |-> ci_upper]
StoreStats == { Stats(100, 5, 95, 105), Stats(2, 7, 0 - 5, 9) }

Entry(name, stats) ==
    [ name |-> name, mean |-> stats.mean, std_dev |-> stats.std_dev,
      ci_lower |-> stats.ci_lower, ci_upper |-> stats.ci_upper ]

\* the files a program may find at baseline_path
FileOf(text) == [exists |-> TRUE, text |-> text]
LineA == EntryLine(Entry(NameA, Stats(100, 5, 95, 105)))
LineB == EntryLine(Entry(NameB, Stats(2, 7, 0 - 5, 9)))
StoreFiles ==
    { NoFile,
      FileOf(<< >>),
      FileOf(HeaderText \o NewLine \o LineA \o LineB),
      FileOf(HeaderText \o NewLine \o LineA \o LineA),
      FileOf(HeaderText \o << "0" >> \o NewLine \o LineA),
      FileOf(<< "z", "a", "p" >> \o NewLine \o LineA),
      FileOf(HeaderText \o NewLine \o NameA \o NewLine
             \o NameA \o Pipe \o << "x" >> \o NewLine \o LineB) }

RECURSIVE AppendUnseen(_, _)
\* seen, followed by the names of es that are not in it yet, each once
AppendUnseen(seen, es) ==
    IF es = << >> THEN seen
    ELSE AppendUnseen(IF \E i \in 1 .. Len(seen) : seen[i] = Head(es).name
                      THEN seen ELSE Append(seen, Head(es).name),
                      Tail(es))

\* the names ever inserted, in the order of their first insertion, after a call
\* that took the store from s to t
FirstInserted(seen, s, t) == AppendUnseen(seen, SubSeq(t.entries, s.count + 1, t.count))

StoreCall(kind, name, stats, result) ==
    op' = [ kind |-> kind, name |-> name, stats |-> stats, ret |-> result,
            before |-> baseline, n |-> op.n + 1 ]

BaselineInit ==
    /\ hpc = "store"
    /\ op.n < MaxStoreOps
    /\ baseline' = zap_baseline_init
    /\ StoreCall("init", << >>, Stats(0, 0, 0, 0), TRUE)
    /\ hist' = [hist EXCEPT !.inserted = << >>]
    /\ UNCHANGED << file, cfg, g, out, hpc, env >>
    /\ UNCHANGED loopVars

BaselineAdd ==
    /\ hpc = "store"
    /\ op.n < MaxStoreOps
    /\ \E name \in StoreNames, stats \in StoreStats :
           /\ baseline' = zap_baseline_add(baseline, name, stats)
           /\ StoreCall("add", name, stats, TRUE)
    /\ hist' = [hist EXCEPT !.inserted = FirstInserted(@, baseline, baseline')]
    /\ UNCHANGED << file, cfg, g, out, hpc, env >>
    /\ UNCHANGED loopVars

BaselineSave ==
    /\ hpc = "store"
    /\ op.n < MaxStoreOps
    /\ file' = zap_baseline_save(baseline).file
    /\ StoreCall("save", << >>, Stats(0, 0, 0, 0), zap_baseline_save(baseline).ret)
    /\ hist' = [hist EXCEPT !.has_saved = TRUE, !.saved = baseline]
    /\ UNCHANGED << baseline, cfg, g, out, hpc, env >>
    /\ UNCHANGED loopVars

BaselineLoad ==
    /\ hpc = "store"
    /\ op.n < MaxStoreOps
    /\ baseline' = zap_baseline_load(baseline, file).b
    /\ StoreCall("load", << >>, Stats(0, 0, 0, 0), zap_baseline_load(baseline, file).ret)
    /\ hist' = [hist EXCEPT !.inserted = FirstInserted(@, baseline, baseline')]
    /\ UNCHANGED << file, cfg, g, out, hpc, env >>
    /\ UNCHANGED loopVars

BaselineFree ==
    /\ hpc = "store"
    /\ op.n < MaxStoreOps
    /\ baseline' = zap_baseline_free(baseline)
    /\ StoreCall("free", << >>, Stats(0, 0, 0, 0), TRUE)
    /\ hist' = [hist EXCEPT !.inserted = << >>]
    /\ UNCHANGED << file, cfg, g, out, hpc, env >>
    /\ UNCHANGED loopVars

\* zap_baseline_add of a new name on a store of capacity 0: the capacity
\* doubles to 0, realloc(entries, 0) may return NULL, and the write through
\* entries[count++] then faults. BaselineAdd is the outcome in which realloc
\* returns a block and the write lands past its end.
BaselineAddFault ==
    /\ hpc = "store"
    /\ op.n < MaxStoreOps
    /\ \E name \in StoreNames, stats \in StoreStats :
           /\ zap_baseline_find(baseline, name) = 0
           /\ GrownForAdd(baseline) = 0
           /\ baseline' = [baseline EXCEPT !.count = @ + 1]
           /\ StoreCall("add", name, stats, FALSE)
    /\ hpc' = "fault"
    /\ UNCHANGED << file, cfg, g, out, hist, env >>
    /\ UNCHANGED loopVars

(* ------------------------------------------------------------------ *)
(* The comparator                                                     *)
(* ------------------------------------------------------------------ *)
Abs(x) == IF x < 0 THEN 0 - x ELSE x

\* change_pct is the quotient num / den of two integers with den > 0; the
\* comparisons of the code on the double are made on the quotient exactly
PctZero == [num |-> 0, den |-> 1]
PctAbsBelow(pct, limit) == Abs(pct.num) < limit * pct.den
PctNegative(pct) == pct.num < 0
PctAbove(pct, limit) == pct.num > limit * pct.den

\* zap_compare with the test on the size of the change made without fabs
zap_compare_no_fabs(base, current) ==
    LET change_pct == IF base.mean > 0
                      THEN [num |-> (current.mean - base.mean) * 100, den |-> base.mean]
                      ELSE PctZero
        ci_overlap == ~(current.ci_upper < base.ci_lower \/ current.ci_lower > base.ci_upper)
        significant == ~ci_overlap
    IN  [ old_mean |-> base.mean,
          new_mean |-> current.mean,
          change_pct |-> change_pct,
          significant |-> significant,
          change |-> IF ~significant \/ change_pct.num < 1 * change_pct.den THEN "ZAP_NO_CHANGE"
                     ELSE IF PctNegative(change_pct) THEN "ZAP_IMPROVED"
                     ELSE "ZAP_REGRESSED" ]

zap_compare(base, current) ==
    LET change_pct == IF base.mean > 0
                      THEN [num |-> (current.mean - base.mean) * 100, den |-> base.mean]
                      ELSE PctZero
        ci_overlap == ~(current.ci_upper < base.ci_lower \/ current.ci_lower > base.ci_upper)
        significant == ~ci_overlap
    IN  [ old_mean |-> base.mean,
          new_mean |-> current.mean,
          change_pct |-> change_pct,
          significant |-> significant,
          change |-> IF ~significant \/ PctAbsBelow(change_pct, 1) THEN "ZAP_NO_CHANGE"
                     ELSE IF PctNegative(change_pct) THEN "ZAP_IMPROVED"
                     ELSE "ZAP_REGRESSED" ]

\* the baseline entries and current statistics zap_compare is applied to: a
\* mean with a confidence interval of some half-width around it
CompareMeans == { 0 - 100, 0, 50, 99, 100, 101, 150, 200, 201 }
CompareHalfWidths == { 0, 1, 60 }
CompareInputs ==
    { Stats(mean, w, mean - w, mean + w) : mean \in CompareMeans, w \in CompareHalfWidths }

Compare ==
    /\ hpc = "compare"
    /\ \E base \in CompareInputs, current \in CompareInputs :
           op' = [ kind |-> "compare", base |-> Entry(NameA, base), current |-> current,
                   cmp |-> zap_compare(Entry(NameA, base), current) ]
    /\ UNCHANGED << baseline, file, cfg, g, out, hpc, hist, env >>
    /\ UNCHANGED loopVars

(* ------------------------------------------------------------------ *)
(* Name and tag filters                                               *)
(* ------------------------------------------------------------------ *)
ZAP_MAX_TAGS == 8
ZAP_MAX_CLI_TAGS == 16

RECURSIVE GlobLoop(_, _, _, _, _, _)
\* the loops of zap__glob_match at pattern position p and string position s,
\* with the positions of the last '*' (0 for NULL) and of the string when it was met
GlobLoop(pattern, str, p, s, star_p, star_s) ==
    IF s > Len(str)
    THEN SkipWhile(pattern, p, { "*" }) = Len(pattern) + 1
    ELSE IF p <= Len(pattern) /\ pattern[p] = "*"
         THEN GlobLoop(pattern, str, p + 1, s, p, s)
    ELSE IF p <= Len(pattern) /\ (pattern[p] = "?" \/ pattern[p] = str[s])
         THEN GlobLoop(pattern, str, p + 1, s + 1, star_p, star_s)
    ELSE IF star_p # 0
         THEN GlobLoop(pattern, str, star_p + 1, star_s + 1, star_p, star_s + 1)
    ELSE FALSE

zap__glob_match(pattern, str) == GlobLoop(pattern, str, 1, 1, 0, 0)

\* strstr(name, pattern) != NULL
strstr(name, pattern) ==
    \E i \in 1 .. Len(name) + 1 :
        /\ i + Len(pattern) - 1 <= Len(name)
        /\ SubSeq(name, i, i + Len(pattern) - 1) = pattern

\* a const char* argument: NULL, or the characters of the string it points to
NullName == [null |-> TRUE, text |-> << >>]
NameOf(text) == [null |-> FALSE, text |-> text]

\* zap_matches_filter searching for the pattern as a substring whether it holds wildcards or not
zap_matches_filter_no_glob(name, filter) ==
    IF filter.null \/ filter.pattern = << >> THEN TRUE
    ELSE IF name.null THEN FALSE
    ELSE strstr(name.text, filter.pattern)

\* a filter is the pointer zap_g_config.filter: NULL, or the pattern it points to
zap_matches_filter(name, filter) ==
    IF filter.null \/ filter.pattern = << >> THEN TRUE
    ELSE IF name.null THEN FALSE
    ELSE IF \E i \in 1 .. Len(filter.pattern) : filter.pattern[i] \in { "*", "?" }
         THEN zap__glob_match(filter.pattern, name.text)
    ELSE strstr(name.text, filter.pattern)

zap_group_matches_tags(config, group) ==
    IF Len(config.cli_tags) = 0 THEN TRUE
    ELSE \E i \in 1 .. Len(config.cli_tags), j \in 1 .. Len(group.tags) :
             config.cli_tags[i] = group.tags[j]

(* ------------------------------------------------------------------ *)
(* Calls of zap_matches_filter                                        *)
(* ------------------------------------------------------------------ *)
\* the longest name and the longest pattern of a call
MaxNameLen == 3
MaxPatternLen == 3

\* the strings of at most n characters of an alphabet
StringsUpTo(alphabet, n) == UNION { [1 .. k -> alphabet] : k \in 0 .. n }

\* names are written in two letters, one of them in both cases, and the
\* character '*'; patterns also hold '?'
NameChars == { "a", "A", "b", "*" }
PatternChars == NameChars \cup { "?" }
FilterNames == { NullName } \cup { NameOf(t) : t \in StringsUpTo(NameChars, MaxNameLen) }
FilterPatterns == { [null |-> TRUE, pattern |-> << >>] } \cup { [null |-> FALSE, pattern |-> t] : t \in StringsUpTo(PatternChars, MaxPatternLen) }

\* the call zap_matches_filter(name, pattern) on the arguments of env
MatchesFilter ==
    /\ hpc = "filter"
    /\ op.kind = "none"
    /\ op' = [ kind |-> "filter", name |-> env.name, filter |-> env.filter,
               ret |-> zap_matches_filter(env.name, env.filter) ]
    /\ UNCHANGED << baseline, file, cfg, g, out, hpc, hist, env >>
    /\ UNCHANGED loopVars

(* ------------------------------------------------------------------ *)
(* Statistics                                                         *)
(*                                                                    *)
(* A double d with 0 <= d < 2^53 * 2^-1074 is k * 2^-1074 for a       *)
(* natural number k, and every such k is a double: the subnormal      *)
(* numbers and the normal numbers of the smallest exponent.  The      *)
(* model keeps a sample as its k.  The sum of two such doubles is     *)
(* exact; a product with a weight and a division by 2.0 are rounded   *)
(* to the nearest k, a tie to the even one (round-to-nearest-even).   *)
(* ------------------------------------------------------------------ *)
\* num / den rounded to the nearest integer, a tie to the even one
RoundHalfEven(num, den) ==
    IF 2 * (num % den) < den THEN num \div den
    ELSE IF 2 * (num % den) > den THEN (num \div den) + 1
    ELSE IF (num \div den) % 2 = 0 THEN num \div den
    ELSE (num \div den) + 1

RECURSIVE InsertSorted(_, _)
\* x put into the ascending sequence s at its place
InsertSorted(s, x) ==
    IF s = << >> THEN << x >>
    ELSE IF x <= Head(s) THEN << x >> \o s
    ELSE << Head(s) >> \o InsertSorted(Tail(s), x)

RECURSIVE qsort(_)
\* qsort(samples, n, sizeof(double), zap__cmp_double): the samples in ascending order
qsort(samples) ==
    IF samples = << >> THEN << >>
    ELSE InsertSorted(qsort(Tail(samples)), Head(samples))

\* zap_median: the array it leaves sorted, and its result
zap_median(samples) ==
    LET n == Len(samples)
        sorted == qsort(samples)
    IN  [ samples |-> sorted,
          ret |-> IF n = 0 THEN 0
                  ELSE IF n % 2 = 0
                       THEN RoundHalfEven(sorted[(n \div 2 - 1) + 1] + sorted[(n \div 2) + 1], 2)
                  ELSE sorted[(n \div 2) + 1] ]

\* the percentiles p whose p / 100.0 is exact in binary: rank is then the
\* exact p * (n - 1) / 100, a multiple of 1/4
QuarterPercentiles == { 0, 25, 50, 75, 100 }

\* four times rank = (p / 100.0) * (n - 1)
Rank4(n, p) == (p * (n - 1)) \div 25

\* zap_percentile(sorted_samples, n, p) for p in QuarterPercentiles; frac and
\* 1.0 - frac are the exact frac4 / 4 and (4 - frac4) / 4
zap_percentile(sorted_samples, p) ==
    LET n == Len(sorted_samples)
        lower == Rank4(n, p) \div 4
        upper == IF lower + 1 >= n THEN n - 1 ELSE lower + 1
        frac4 == Rank4(n, p) - 4 * lower
    IN  IF n = 0 THEN 0
        ELSE IF n = 1 THEN sorted_samples[1]
        ELSE RoundHalfEven(sorted_samples[lower + 1] * (4 - frac4), 4)
             + RoundHalfEven(sorted_samples[upper + 1] * frac4, 4)

\* the largest number of samples of a call
MaxSamples == 3
\* the samples, as multiples of 2^-1074: odd and even ones
SampleValues == { 0, 1, 2, 3, 4, 8 }
SampleSets == UNION { [1 .. n -> SampleValues] : n \in 1 .. MaxSamples }

\* zap_median on a copy of the samples, then zap_percentile on the sorted copy
MedianAndPercentile ==
    /\ hpc = "stats"
    /\ op.kind = "none"
    /\ op' = [ kind |-> "stats", samples |-> env.samples,
               sorted |-> zap_median(env.samples).samples,
               median |-> zap_median(env.samples).ret,
               p |-> env.p,
               percentile |-> zap_percentile(zap_median(env.samples).samples, env.p) ]
    /\ UNCHANGED << baseline, file, cfg, g, out, hpc, hist, env >>
    /\ UNCHANGED loopVars

(* ------------------------------------------------------------------ *)
(* The benchmark program: zap_parse_args, groups, zap_finalize        *)
(* ------------------------------------------------------------------ *)
\* the groups one program opens, the benchmarks it registers, the tags it gives a group
MaxGroups == 1
MaxBenches == 2
MaxGroupTags == 1

NoFilter == [null |-> TRUE, pattern |-> << >>]
FilterOf(pattern) == [null |-> FALSE, pattern |-> pattern]
\* --filter a (a substring) and --filter *b (a glob)
Filters == { NoFilter, FilterOf(<< "a" >>), FilterOf(<< "*", "b" >>) }

BenchNames == { NameA, NameB }
TagNames == { "fast", "slow" }
\* the benches arrays of the ZAP_GROUP groups of the program
StaticGroups == { << NameA >>, << NameB, NameA >> }

\* the statistics of the baseline file and those a routine's samples give:
\* the same, 5 % slower, 50 % slower
BaseStats == Stats(100, 1, 99, 101)
RunStats == { BaseStats, Stats(105, 1, 104, 106), Stats(150, 1, 149, 151) }

\* the baseline file of an earlier run of the two benchmarks
PriorFile ==
    FileOf(HeaderText \o NewLine \o EntryLine(Entry(NameA, BaseStats))
                                 \o EntryLine(Entry(NameB, BaseStats)))
HarnessFiles == { NoFile, PriorFile }

\* the command lines: every combination of --no-compare, --no-save, --filter
\* and --fail-threshold; --tag; --dry-run
\* samples, warmup and time are the values of --samples, --warmup and --time,
\* 0 for an option that is not given
Args(filter, fail_threshold, no_save, no_compare, dry_run, tags) ==
    [ filter |-> filter, fail_threshold |-> fail_threshold, no_save |-> no_save,
      no_compare |-> no_compare, dry_run |-> dry_run, tags |-> tags,
      samples |-> 0, warmup |-> 0, time |-> 0 ]
CliArgs ==
    { Args(f, t, ns, nc, FALSE, << >>) :
          f \in Filters, t \in { 0, 10 }, ns \in BOOLEAN, nc \in BOOLEAN }
\* every combination of --filter, --tag fast and --dry-run
GroupCliArgs ==
    { Args(f, 0, FALSE, FALSE, d, tags) :
          f \in { NoFilter, FilterOf(<< "a" >>) }, d \in BOOLEAN,
          tags \in { << >>, << "fast" >> } }

\* the values of --samples (what atoi returns) and of --warmup and --time
\* (what zap__parse_duration returns), 0 for an option that is not given
CliSampleCounts == { 0, 5, 50 }
CliDurations == { 0, 1000 }
\* every combination of --samples, --warmup and --time
ConfigCliArgs ==
    { [ Args(NoFilter, 0, FALSE, FALSE, FALSE, << >>)
          EXCEPT !.samples = n, !.warmup = w, !.time = t ] :
          n \in CliSampleCounts, w \in CliDurations, t \in CliDurations }

\* what zap_parse_args leaves in zap_g_config and its baseline member, given
\* the static configuration, the options of the command line and the file
zap_parse_args(config, store, args, f) ==
    LET parsed == [ config EXCEPT
                      !.filter = args.filter,
                      !.fail_threshold = args.fail_threshold,
                      !.save_baseline = ~args.no_save,
                      !.compare = ~args.no_compare,
                      !.has_regression = FALSE,
                      !.dry_run = @ \/ args.dry_run,
                      !.cli_samples = args.samples,
                      !.cli_warmup_ns = args.warmup,
                      !.cli_time_ns = args.time,
                      !.cli_tags = @ \o strncpy(args.tags, ZAP_MAX_CLI_TAGS - Len(@)) ]
        load == zap_baseline_load(zap_baseline_init, f)
    IN  IF parsed.dry_run
        THEN [cfg |-> parsed, baseline |-> store, loaded |-> FALSE, ret |-> FALSE]
        ELSE IF parsed.compare
        THEN [ cfg |-> [parsed EXCEPT !.compare = load.ret],
               baseline |-> load.b, loaded |-> TRUE, ret |-> load.ret ]
        ELSE [cfg |-> parsed, baseline |-> zap_baseline_init, loaded |-> FALSE, ret |-> FALSE]

\* has_regression after a comparison, with the test fail_threshold > 0 left out
TrackRegression_any_threshold(config, cmp) ==
    IF cmp.change = "ZAP_REGRESSED" /\ PctAbove(cmp.change_pct, config.fail_threshold)
    THEN TRUE
    ELSE config.has_regression

\* has_regression after a comparison
TrackRegression(config, cmp) ==
    IF /\ config.fail_threshold > 0
       /\ cmp.change = "ZAP_REGRESSED"
       /\ PctAbove(cmp.change_pct, config.fail_threshold)
    THEN TRUE
    ELSE config.has_regression

\* a program state the runner functions work on
RunState(config, store, group, printed, ran) ==
    [cfg |-> config, baseline |-> store, g |-> group, out |-> printed, ran |-> ran]

Event(ev, gid, name) == [ev |-> ev, gid |-> gid, name |-> name]

\* zap__run_and_report, and the same statements at the end of zap_run_bench_internal:
\* the routine has run and its samples have the statistics stats
zap__run_and_report(s, state, name, stats, static) ==
    LET i == IF s.cfg.compare THEN zap_baseline_find(s.baseline, name) ELSE 0
        found == i > 0
        against == IF found THEN s.baseline.entries[i] ELSE Entry(<< >>, Stats(0, 0, 0, 0))
        cmp == zap_compare(against, stats)
        kind == IF found THEN "comparison" ELSE IF s.cfg.compare THEN "new" ELSE "plain"
    IN  [ s EXCEPT
            !.cfg.has_regression = IF found THEN TrackRegression(s.cfg, cmp) ELSE @,
            !.baseline = IF s.cfg.save_baseline
                         THEN zap_baseline_add(s.baseline, name, stats) ELSE @,
            !.out = @ \o << Event("routine", s.g.gid, name), Event(kind, s.g.gid, name) >>,
            !.ran = Append(@, [ name |-> name, gid |-> s.g.gid, static |-> static,
                                tags |-> s.g.tags, stats |-> stats, compared |-> found,
                                against |-> against, cmp |-> cmp,
                                config |-> state.config ]) ]

\* zap_bench_function; zap_bench_with_input is the same with name "label/param"
zap_bench_function(s, name, stats) ==
    IF ~zap_matches_filter(NameOf(name), s.cfg.filter) THEN s
    ELSE IF ~zap_group_matches_tags(s.cfg, s.g) THEN s
    ELSE IF s.cfg.dry_run THEN [s EXCEPT !.out = Append(@, Event("dry_run", s.g.gid, name))]
    ELSE LET header == ~s.g.header_printed
             setup == s.g.setup /\ ~s.g.setup_called
         IN  zap__run_and_report(
                 [ s EXCEPT
                     !.out = @ \o (IF header THEN << Event("group_start", s.g.gid, << >>) >>
                                             ELSE << >>)
                               \o (IF setup THEN << Event("setup", s.g.gid, << >>) >>
                                            ELSE << >>),
                     !.g.header_printed = TRUE,
                     !.g.setup_called = @ \/ setup ],
                 zap__init_with_config(s.g.config, s.cfg), name, stats, FALSE)

zap_run_bench_internal(s, name, stats) ==
    IF ~zap_matches_filter(NameOf(name), s.cfg.filter) THEN s
    ELSE IF s.cfg.dry_run THEN [s EXCEPT !.out = Append(@, Event("dry_run", s.g.gid, name))]
    ELSE zap__run_and_report(s, zap_init(s.cfg), name, stats, TRUE)

RECURSIVE RunBenches(_, _, _)
\* the for loop of zap_run_group_internal over the benches of the group
RunBenches(s, benches, stats) ==
    IF benches = << >> THEN s
    ELSE RunBenches(zap_run_bench_internal(s, Head(benches), Head(stats)),
                    Tail(benches), Tail(stats))

\* zap_run_group_internal on a ZAP_GROUP group: s.g holds its number and no tags
zap_run_group_internal(s, benches, stats) ==
    LET matching == Cardinality({ i \in 1 .. Len(benches) :
                                     zap_matches_filter(NameOf(benches[i]), s.cfg.filter) })
        start == IF s.cfg.dry_run THEN s
                 ELSE [s EXCEPT !.out = Append(@, Event("group_start", s.g.gid, << >>))]
        run == RunBenches(start, benches, stats)
    IN  IF ~s.cfg.filter.null /\ matching = 0 THEN s
        ELSE IF s.cfg.dry_run THEN run
        ELSE [run EXCEPT !.out = Append(@, Event("group_end", s.g.gid, << >>))]

\* zap_benchmark_group: the group structure and what is printed
zap_benchmark_group(s, gid) ==
    LET now == s.cfg.filter.null /\ ~s.cfg.dry_run /\ Len(s.cfg.cli_tags) = 0
    IN  [ s EXCEPT
            !.g = [ gid |-> gid, active |-> TRUE, header_printed |-> now, tags |-> << >>,
                    setup |-> FALSE, teardown |-> FALSE, setup_called |-> FALSE,
                    config |-> [ warmup_time_ns |-> ZAP_DEFAULT_WARMUP_TIME_NS,
                                 measurement_time_ns |-> ZAP_DEFAULT_MEASUREMENT_TIME_NS,
                                 sample_count |-> ZAP_DEFAULT_SAMPLE_COUNT ] ],
            !.out = IF now THEN Append(@, Event("group_start", gid, << >>)) ELSE @ ]

zap_group_measurement_time(group, ns) == [group EXCEPT !.config.measurement_time_ns = ns]

zap_group_warmup_time(group, ns) == [group EXCEPT !.config.warmup_time_ns = ns]

zap_group_sample_count(group, count) == [group EXCEPT !.config.sample_count = count]

zap_group_tag(group, tag) ==
    IF Len(group.tags) < ZAP_MAX_TAGS THEN [group EXCEPT !.tags = Append(@, tag)] ELSE group

zap_group_finish(s) ==
    [ s EXCEPT
        !.g.active = FALSE,
        !.out = @ \o (IF s.g.teardown /\ ~s.cfg.dry_run
                      THEN << Event("teardown", s.g.gid, << >>) >> ELSE << >>)
                  \o (IF s.g.header_printed
                      THEN << Event("group_end", s.g.gid, << >>) >> ELSE << >>) ]

\* zap_finalize: the file at baseline_path, the store and the exit status
zap_finalize(config, store, f) ==
    IF config.dry_run THEN [file |-> f, baseline |-> store, ret |-> 0]
    ELSE [ file |-> IF config.save_baseline /\ store.count > 0 /\ zap_baseline_save(store).ret
                    THEN zap_baseline_save(store).file ELSE f,
           baseline |-> IF store.capacity # 0 THEN zap_baseline_free(store) ELSE store,
           ret |-> IF config.has_regression THEN 1 ELSE 0 ]

Here == RunState(cfg, baseline, g, out, hist.ran)

\* the runner functions change the configuration, the store, the group, the output
Becomes(s, calls) ==
    /\ cfg' = s.cfg
    /\ baseline' = s.baseline
    /\ g' = s.g
    /\ out' = s.out
    /\ hist' = [hist EXCEPT !.ran = s.ran, !.calls = @ + calls]

ParseArgs ==
    /\ hpc = "args"
    /\ \E args \in env.cli :
           LET r == zap_parse_args(cfg, baseline, args, file)
           IN  /\ cfg' = r.cfg
               /\ baseline' = r.baseline
               /\ op' = IF r.loaded
                        THEN [ kind |-> "load", name |-> << >>, stats |-> Stats(0, 0, 0, 0),
                               ret |-> r.ret, before |-> zap_baseline_init, n |-> op.n + 1 ]
                        ELSE op
               /\ hist' = [hist EXCEPT !.prior = file, !.loaded = r.baseline]
    /\ hpc' = "run"
    /\ UNCHANGED << file, g, out, env >>
    /\ UNCHANGED loopVars

BenchmarkGroup ==
    /\ hpc = "run"
    /\ g.gid < MaxGroups
    /\ cfg' = zap_benchmark_group(Here, g.gid + 1).cfg
    /\ baseline' = zap_benchmark_group(Here, g.gid + 1).baseline
    /\ g' = zap_benchmark_group(Here, g.gid + 1).g
    /\ out' = zap_benchmark_group(Here, g.gid + 1).out
    /\ hist' = [hist EXCEPT !.opened_at = hist.calls]
    /\ hpc' = "group"
    /\ UNCHANGED << file, op, env >>
    /\ UNCHANGED loopVars

\* the program configures a group before it registers the group's benchmarks
Configuring == hpc = "group" /\ hist.calls = hist.opened_at

GroupTag ==
    /\ Configuring
    /\ Len(g.tags) < MaxGroupTags
    /\ \E tag \in TagNames : g' = zap_group_tag(g, tag)
    /\ UNCHANGED << baseline, file, op, cfg, out, hpc, hist, env >>
    /\ UNCHANGED loopVars

GroupSetup ==
    /\ Configuring
    /\ g' = [g EXCEPT !.setup = TRUE]
    /\ UNCHANGED << baseline, file, op, cfg, out, hpc, hist, env >>
    /\ UNCHANGED loopVars

GroupTeardown ==
    /\ Configuring
    /\ g' = [g EXCEPT !.teardown = TRUE]
    /\ UNCHANGED << baseline, file, op, cfg, out, hpc, hist, env >>
    /\ UNCHANGED loopVars

\* the counts and durations a program gives the setters of a group
SampleCountArgs == { 0, 5, MIN_SAMPLES }
DurationArgs == { 0, 1000000 }

GroupMeasurementTime ==
    /\ Configuring
    /\ \E ns \in DurationArgs :
           /\ g.config.measurement_time_ns # ns
           /\ g' = zap_group_measurement_time(g, ns)
    /\ UNCHANGED << baseline, file, op, cfg, out, hpc, hist, env >>
    /\ UNCHANGED loopVars

GroupWarmupTime ==
    /\ Configuring
    /\ \E ns \in DurationArgs :
           /\ g.config.warmup_time_ns # ns
           /\ g' = zap_group_warmup_time(g, ns)
    /\ UNCHANGED << baseline, file, op, cfg, out, hpc, hist, env >>
    /\ UNCHANGED loopVars

GroupSampleCount ==
    /\ Configuring
    /\ \E count \in SampleCountArgs :
           /\ g.config.sample_count # count
           /\ g' = zap_group_sample_count(g, count)
    /\ UNCHANGED << baseline, file, op, cfg, out, hpc, hist, env >>
    /\ UNCHANGED loopVars

BenchFunction ==
    /\ hpc = "group"
    /\ hist.calls < MaxBenches
    /\ \E name \in BenchNames, stats \in env.stats :
           Becomes(zap_bench_function(Here, name, stats), 1)
    /\ UNCHANGED << file, op, hpc, env >>
    /\ UNCHANGED loopVars

GroupFinish ==
    /\ hpc = "group"
    /\ Becomes(zap_group_finish(Here), 0)
    /\ hpc' = "run"
    /\ UNCHANGED << file, op, env >>
    /\ UNCHANGED loopVars

RunGroupInternal ==
    /\ hpc = "run"
    /\ g.gid < MaxGroups
    /\ \E benches \in StaticGroups :
           /\ hist.calls + Len(benches) <= MaxBenches
           /\ \E stats \in [1 .. Len(benches) -> env.stats] :
                  Becomes(zap_run_group_internal(
                      [Here EXCEPT !.g = [NoGroup EXCEPT !.gid = g.gid + 1]], benches, stats),
                      Len(benches))
    /\ UNCHANGED << file, op, hpc, env >>
    /\ UNCHANGED loopVars

Finalize ==
    /\ hpc = "run"
    /\ file' = zap_finalize(cfg, baseline, file).file
    /\ baseline' = zap_finalize(cfg, baseline, file).baseline
    /\ hist' = [hist EXCEPT !.exit = zap_finalize(cfg, baseline, file).ret]
    /\ hpc' = "done"
    /\ UNCHANGED << op, cfg, g, out, env >>
    /\ UNCHANGED loopVars

(* ------------------------------------------------------------------ *)
(* Specifications                                                     *)
(* ------------------------------------------------------------------ *)
\* one routine driving the controller with ZAP_LOOP, under the free timers
\* and under the 100 ns mock
Init == InitWith({FastSteps, OddSteps, MockSteps}, FALSE, "outer")
Next == LoopOuter \/ LoopStart \/ LoopBody \/ LoopEnd \/ LoopAgain
Spec == Init /\ [][Next]_vars

\* the two calls in any order, under the free timers
InitCalls == InitWith({FastSteps, OddSteps}, FALSE, "calls")
NextCalls == CallStart \/ CallEnd
SpecCalls == InitCalls /\ [][NextCalls]_vars

\* one ZAP_LOOP under a strictly increasing timer; the single thread keeps
\* running, so every enabled step is eventually taken
InitRun == InitWith({FastSteps, MockSteps}, TRUE, "outer")
NextRun == LoopOuter \/ LoopStart \/ LoopBody \/ LoopEnd
SpecRun == InitRun /\ [][NextRun]_vars /\ WF_vars(NextRun)

\* one ZAP_LOOP under a timer that never goes back, and the two calls in any
\* order after it
InitDone == InitWith({FastSteps, MockSteps}, FALSE, "outer")
NextDone == LoopOuter \/ LoopStart \/ LoopBody \/ LoopEnd \/ LaterStart \/ LaterEnd
SpecDone == InitDone /\ [][NextDone]_vars

\* the loop controller while no routine is running: a zap_t just initialised
LoopIdle ==
    /\ timer_steps = MockSteps
    /\ c = zap__init_with_config([ warmup_time_ns |-> 1, measurement_time_ns |-> 1,
                                   sample_count |-> MIN_SAMPLES ], ZeroConfig)
    /\ clock = 0
    /\ reads = 0
    /\ pc = "idle"
    /\ crit_done = 0
    /\ loop_no = 1
    /\ ret = FALSE
    /\ false_returns = 0
    /\ exit_by = "none"
    /\ budget_expired = FALSE
    /\ batch_n = 0
    /\ sample_n = << >>
    /\ last_start_warm = FALSE
    /\ last_call = "init"

\* calls on one baseline store, in any order, with any of the files at its path
InitBaseline ==
    /\ LoopIdle
    /\ baseline = zap_baseline_init
    /\ file \in StoreFiles
    /\ op = IdleOp
    /\ cfg = ZeroConfig
    /\ g = NoGroup
    /\ out = << >>
    /\ hpc = "store"
    /\ hist = NoHistory
    /\ env = NoEnv
NextBaseline == BaselineInit \/ BaselineAdd \/ BaselineSave \/ BaselineLoad
SpecBaseline == InitBaseline /\ [][NextBaseline]_vars

\* the same store through its whole life: initialised, filled, freed and
\* used again
NextStore ==
    \/ BaselineInit \/ BaselineAdd \/ BaselineLoad \/ BaselineFree
    \/ BaselineAddFault
SpecStore == InitBaseline /\ [][NextStore]_vars

\* zap_compare applied to baseline entries and current statistics
InitCompare ==
    /\ LoopIdle
    /\ baseline = EmptyBaseline
    /\ file = NoFile
    /\ op = IdleOp
    /\ cfg = ZeroConfig
    /\ g = NoGroup
    /\ out = << >>
    /\ hpc = "compare"
    /\ hist = NoHistory
    /\ env = NoEnv
NextCompare == Compare
SpecCompare == InitCompare /\ [][NextCompare]_vars

\* zap_matches_filter applied to names and patterns
InitFilter ==
    /\ LoopIdle
    /\ baseline = EmptyBaseline
    /\ file = NoFile
    /\ op = IdleOp
    /\ cfg = ZeroConfig
    /\ g = NoGroup
    /\ out = << >>
    /\ hpc = "filter"
    /\ hist = NoHistory
    /\ env \in [name : FilterNames, filter : FilterPatterns]
NextFilter == MatchesFilter
SpecFilter == InitFilter /\ [][NextFilter]_vars

\* zap_median and zap_percentile applied to sample arrays
InitStats ==
    /\ LoopIdle
    /\ baseline = EmptyBaseline
    /\ file = NoFile
    /\ op = IdleOp
    /\ cfg = ZeroConfig
    /\ g = NoGroup
    /\ out = << >>
    /\ hpc = "stats"
    /\ hist = NoHistory
    /\ env \in [samples : SampleSets, p : QuarterPercentiles]
NextStats == MedianAndPercentile
SpecStats == InitStats /\ [][NextStats]_vars

\* one benchmark program: zap_parse_args, then runtime groups and ZAP_GROUP
\* groups in any order, then zap_finalize
InitProgram ==
    /\ LoopIdle
    /\ baseline = EmptyBaseline
    /\ file \in HarnessFiles
    /\ op = IdleOp
    /\ cfg = ZeroConfig
    /\ g = NoGroup
    /\ out = << >>
    /\ hpc = "args"
    /\ hist = NoHistory
    /\ env = [cli |-> CliArgs, stats |-> RunStats]
NextProgram ==
    \/ ParseArgs \/ BenchmarkGroup \/ BenchFunction \/ GroupFinish
    \/ RunGroupInternal \/ Finalize
SpecProgram == InitProgram /\ [][NextProgram]_vars

\* one benchmark program whose groups have tags and hooks, run with name and
\* tag filters and with --dry-run, with no baseline file
InitGroups ==
    /\ LoopIdle
    /\ baseline = EmptyBaseline
    /\ file = NoFile
    /\ op = IdleOp
    /\ cfg = ZeroConfig
    /\ g = NoGroup
    /\ out = << >>
    /\ hpc = "args"
    /\ hist = NoHistory
    /\ env = [cli |-> GroupCliArgs, stats |-> { BaseStats }]
NextGroups ==
    \/ ParseArgs \/ BenchmarkGroup \/ GroupTag \/ GroupSetup \/ GroupTeardown
    \/ BenchFunction \/ GroupFinish \/ RunGroupInternal \/ Finalize
SpecGroups == InitGroups /\ [][NextGroups]_vars

\* one benchmark program that sets the configuration of its groups, run with
\* --samples, --warmup and --time, with no baseline file
InitConfig ==
    /\ LoopIdle
    /\ baseline = EmptyBaseline
    /\ file = NoFile
    /\ op = IdleOp
    /\ cfg = ZeroConfig
    /\ g = NoGroup
    /\ out = << >>
    /\ hpc = "args"
    /\ hist = NoHistory
    /\ env = [cli |-> ConfigCliArgs, stats |-> { BaseStats }]
NextConfig ==
    \/ ParseArgs \/ BenchmarkGroup \/ GroupMeasurementTime \/ GroupWarmupTime
    \/ GroupSampleCount \/ BenchFunction \/ GroupFinish \/ RunGroupInternal \/ Finalize
SpecConfig == InitConfig /\ [][NextConfig]_vars

(* ------------------------------------------------------------------ *)
(* Properties of the loop controller                                  *)
(* ------------------------------------------------------------------ *)
FirstLoopExited == pc = "exit" /\ loop_no = 1

\* C1: whatever the order of the zap_loop_start and zap_loop_end calls and
\* whatever the timer returns, the number of stored samples never exceeds
\* the sample capacity, and the buffer holds exactly the counted samples.
C1_SampleCountWithinCapacity ==
    /\ c.sample_count <= c.sample_capacity
    /\ Len(c.samples) = c.sample_count

C1_Witness ==
    /\ c.sample_capacity > 0
    /\ c.sample_count = c.sample_capacity
    /\ last_call = "end"

\* C2: as long as the latest zap_loop_start call was made during warmup
\* (the call that completes the warmup included), no zap_loop_end has
\* stored a sample: the buffer is empty.
C2_NoSampleDuringWarmup ==
    last_start_warm => (c.sample_count = 0 /\ c.samples = << >>)

C2_Witness ==
    /\ last_start_warm
    /\ c.warmup_complete
    /\ last_call = "end"
    /\ c.sample_capacity > 0

\* C3: when the first ZAP_LOOP has finished and the elapsed-time check never
\* saw the measurement budget used up, exactly sample_count samples are stored.
C3_ExactlySampleCount ==
    (FirstLoopExited /\ ~budget_expired) => c.sample_count = c.config.sample_count

C3_Witness ==
    /\ FirstLoopExited
    /\ ~budget_expired
    /\ c.config.measurement_time_ns = HugeTime
    /\ c.sample_count = MIN_SAMPLES + MaxCap

\* C4: zap_loop_start returns false on the elapsed-time check only with at
\* least 10 samples stored, so a run with a capacity of 10 or more ends with
\* at least 10 samples.
C4_TenSamplesBeforeTimeout ==
    /\ exit_by = "time" => c.sample_count >= MIN_SAMPLES
    /\ (FirstLoopExited /\ c.sample_capacity >= MIN_SAMPLES) => c.sample_count >= MIN_SAMPLES

C4_Witness ==
    /\ FirstLoopExited
    /\ exit_by = "time"
    /\ c.sample_count = MIN_SAMPLES
    /\ c.sample_count < c.sample_capacity

\* C5: under a strictly increasing timer a ZAP_LOOP on a fresh state finishes,
\* zap_loop_start has then returned false exactly once, and after the false
\* return the controller is not called again.
C5_FalseExactlyOnce ==
    /\ <>(pc = "exit")
    /\ [](false_returns <= 1)
    /\ [](pc = "exit" => false_returns = 1)
    /\ [][(last_call # "init" /\ ret = FALSE)
             => UNCHANGED << c, ret, false_returns, reads, last_call >>]_vars

C5_Witness ==
    /\ pc = "exit"
    /\ false_returns = 1
    /\ c.sample_count > 0

\* C6: the iteration count never exceeds 10^9.
C6_IterationsAtMost1e9 == c.iterations <= MAX_ITERATIONS

\* C7: after the first ZAP_LOOP has finished, the iteration counts of the
\* stored samples are non-decreasing in the order of the samples, and the
\* final iteration count is at least each of them.
C7_IterationsNonDecreasing ==
    FirstLoopExited =>
        /\ \A i, j \in 1 .. Len(c.samples) : i < j => c.samples[i].den <= c.samples[j].den
        /\ \A i \in 1 .. Len(c.samples) : c.samples[i].den <= c.iterations

\* C8: every stored sample was divided by the iteration count the inner loop
\* of its batch ran with, and that count is still the controller's when
\* zap_loop_end is about to divide.
C8_SampleDividedByBatchIterations ==
    /\ Len(sample_n) = Len(c.samples)
    /\ \A i \in 1 .. Len(c.samples) : c.samples[i].den = sample_n[i]
    /\ pc = "end" => c.iterations = batch_n

C8_Witness ==
    /\ Len(c.samples) >= 2
    /\ c.samples[1].den < c.samples[2].den
    /\ last_call = "end"

\* C9: measuring implies warmup_complete, and warmup_complete, once true,
\* stays true.
C9_WarmupNeverReentered ==
    /\ [](c.measuring => c.warmup_complete)
    /\ [][c.warmup_complete => c'.warmup_complete]_vars

C9_Witness ==
    /\ c.measuring
    /\ c.warmup_complete
    /\ c.sample_count >= 1

\* C10: under the mock timer that advances 100 ns per read, every stored
\* sample is 100 / N for the iteration count N of its batch.
C10_MockSamplesAre100OverN ==
    timer_steps = MockSteps =>
        /\ Len(sample_n) = Len(c.samples)
        /\ \A i \in 1 .. Len(c.samples) : c.samples[i] = TimePerIter(MockStep, sample_n[i])

C10_Witness ==
    /\ timer_steps = MockSteps
    /\ Len(c.samples) >= 2
    /\ c.samples[1].den < c.samples[2].den

(* ------------------------------------------------------------------ *)
(* Properties of the baseline store                                   *)
(* ------------------------------------------------------------------ *)
KeysUnique(s) ==
    \A i, j \in 1 .. s.count : s.entries[i].name = s.entries[j].name => i = j

EntryNames(s) == [i \in 1 .. s.count |-> s.entries[i].name]

\* C11: on a store with unique keys, add(name, s1) followed by add(name, s2)
\* leaves exactly one entry named name, holding the four fields of s2, and the
\* second call changes neither the count nor any other entry; an add of a
\* name that is not in the store appends one entry at the end.
C11_AddIsUpsert ==
    (hpc = "store" /\ KeysUnique(baseline)) =>
        \A name \in StoreNames, s1, s2 \in StoreStats :
            LET b1 == zap_baseline_add(baseline, name, s1)
                b2 == zap_baseline_add(b1, name, s2)
                named == { i \in 1 .. b2.count : b2.entries[i].name = name }
            IN  /\ Cardinality(named) = 1
                /\ \A i \in named : b2.entries[i] = Entry(name, s2)
                /\ b2.count = b1.count
                /\ \A i \in 1 .. b1.count : i \notin named => b2.entries[i] = b1.entries[i]
                /\ zap_baseline_find(baseline, name) = 0 =>
                       /\ b1.count = baseline.count + 1
                       /\ SubSeq(b1.entries, 1, baseline.count) = baseline.entries

\* C12: after any sequence of add and load calls on an initialised store no
\* two entries have the same name, and the entries are in the order in which
\* their names were first inserted.
C12_KeysUniqueInInsertionOrder ==
    hpc = "store" => (KeysUnique(baseline) /\ EntryNames(baseline) = hist.inserted)

\* no name of the store holds the field separator or a newline
NamesPlain(s) ==
    \A i \in 1 .. s.count : \A k \in 1 .. Len(s.entries[i].name) :
        s.entries[i].name[k] \notin { "|", "\n" }

\* C13: a store whose names hold no '|' and no newline, saved and then loaded
\* into an empty initialised store, comes back with the same number of
\* entries, in the same order, with the same names and numeric fields.
C13_SaveLoadRoundTrip ==
    hpc = "store" =>
        /\ NamesPlain(baseline) =>
               LET r == zap_baseline_load(zap_baseline_init, zap_baseline_save(baseline).file)
               IN  r.ret /\ r.b.count = baseline.count /\ r.b.entries = baseline.entries
        /\ ( /\ op.kind = "load"
             /\ op.before = zap_baseline_init
             /\ hist.has_saved
             /\ NamesPlain(hist.saved) ) =>
               op.ret /\ baseline.count = hist.saved.count
                      /\ baseline.entries = hist.saved.entries

C13_Witness ==
    /\ hpc = "store"
    /\ op.kind = "load"
    /\ op.before = zap_baseline_init
    /\ hist.has_saved
    /\ NamesPlain(hist.saved)
    /\ hist.saved.count >= 2
    /\ baseline.entries = hist.saved.entries

\* the first line of a text, without its newline
FirstLine(text) ==
    IF strchr(text, "\n") = 0 THEN text ELSE SubSeq(text, 1, strchr(text, "\n") - 1)

\* C14: a load of a file whose first line is not "zap-baseline v1" returns
\* false and adds no entry to the store, whatever the other lines hold.
C14_BadHeaderFails ==
    ( /\ hpc = "store"
      /\ op.kind = "load"
      /\ file.exists
      /\ FirstLine(file.text) # HeaderText ) =>
        (~op.ret /\ baseline = op.before)

(* ------------------------------------------------------------------ *)
(* Properties of a benchmark program and its baseline file            *)
(* ------------------------------------------------------------------ *)
Started == hpc \in { "run", "group", "done" }

\* C15: a load of a missing file returns false and leaves the store as it
\* was, so the store zap_parse_args initialised stays empty; the run goes on
\* without comparison and does not fail.
C15_MissingFileNoComparison ==
    /\ zap_baseline_load(baseline, NoFile) = [b |-> baseline, ret |-> FALSE]
    /\ (Started /\ ~hist.prior.exists) =>
           /\ op.kind = "load" => (~op.ret /\ hist.loaded = op.before)
           /\ hist.loaded.count = 0
           /\ ~cfg.compare
           /\ \A i \in 1 .. Len(hist.ran) : ~hist.ran[i].compared
           /\ \A i \in 1 .. Len(out) : out[i].ev # "comparison"
           /\ hpc = "done" => hist.exit = 0

C15_Witness ==
    /\ hpc = "done"
    /\ ~hist.prior.exists
    /\ op.kind = "load"
    /\ Len(hist.ran) >= 1
    /\ hist.exit = 0

\* the store a file holds
StoreOf(f) == zap_baseline_load(zap_baseline_init, f).b

\* the statistics of the last routine run under a name, those of entry e if none ran
LastRun(name, e) ==
    LET runs == { i \in 1 .. Len(hist.ran) : hist.ran[i].name = name }
    IN  IF runs = {} THEN e
        ELSE Entry(name, hist.ran[CHOOSE i \in runs : \A j \in runs : j <= i].stats)

\* C16: with saving enabled, every entry of the baseline file of before the
\* run is in the file after zap_finalize, with the values of its benchmark's
\* run if it ran and with its old values otherwise, whatever the compare
\* option and the name filter.
C16_SavePreservesPriorEntries ==
    (hpc = "done" /\ cfg.save_baseline) =>
        \A i \in 1 .. StoreOf(hist.prior).count :
            LET e == StoreOf(hist.prior).entries[i]
            IN  \E j \in 1 .. StoreOf(file).count :
                    StoreOf(file).entries[j] = LastRun(e.name, e)

\* the comparator's reference rule, on the quotient (new - old) * 100 / old
RefSignificant(base, current) ==
    current.ci_upper < base.ci_lower \/ current.ci_lower > base.ci_upper
RefChange(base, current) ==
    LET old == base.mean
        new == current.mean
        below1 == IF old <= 0 THEN TRUE ELSE Abs(new - old) * 100 < old
    IN  IF ~RefSignificant(base, current) \/ below1 THEN "ZAP_NO_CHANGE"
        ELSE IF new < old THEN "ZAP_IMPROVED"
        ELSE "ZAP_REGRESSED"

\* C17: zap_compare gives significant, change_pct and the classification of
\* the reference rule for every baseline entry and current statistics;
\* overlapping confidence intervals give no change whatever change_pct is.
C17_CompareMatchesReference ==
    (hpc = "compare" /\ op.kind = "compare") =>
        /\ op.cmp.significant = RefSignificant(op.base, op.current)
        /\ op.cmp.change_pct.den > 0
        /\ IF op.base.mean <= 0
           THEN op.cmp.change_pct.num = 0
           ELSE op.cmp.change_pct.num * op.base.mean
                = (op.current.mean - op.base.mean) * 100 * op.cmp.change_pct.den
        /\ op.cmp.change = RefChange(op.base, op.current)
        /\ ~RefSignificant(op.base, op.current) => op.cmp.change = "ZAP_NO_CHANGE"

C17_Witness ==
    /\ hpc = "compare"
    /\ op.kind = "compare"
    /\ ~RefSignificant(op.base, op.current)
    /\ PctAbove(op.cmp.change_pct, 1)
    /\ op.cmp.change = "ZAP_NO_CHANGE"

\* some routine the run executed was compared, classified as regressed, with
\* change_pct above a positive fail_threshold
RegressionSeen ==
    \E i \in 1 .. Len(hist.ran) :
        /\ hist.ran[i].compared
        /\ hist.ran[i].cmp.change = "ZAP_REGRESSED"
        /\ PctAbove(hist.ran[i].cmp.change_pct, cfg.fail_threshold)
        /\ cfg.fail_threshold > 0

\* C18: zap_finalize returns 1 exactly if some executed benchmark regressed
\* beyond a positive fail_threshold, 0 otherwise; has_regression is set from
\* the first such benchmark on and no later benchmark clears it.
C18_ExitStatusIffRegression ==
    /\ Started => (cfg.has_regression <=> RegressionSeen)
    /\ hpc = "done" => hist.exit = (IF RegressionSeen THEN 1 ELSE 0)

C18_Witness ==
    /\ hpc = "done"
    /\ hist.exit = 1
    /\ Len(hist.ran) >= 2
    /\ hist.ran[Len(hist.ran)].cmp.change # "ZAP_REGRESSED"

(* ------------------------------------------------------------------ *)
(* Properties of groups                                               *)
(* ------------------------------------------------------------------ *)
EventsOf(ev, gid) == { i \in 1 .. Len(out) : out[i].ev = ev /\ out[i].gid = gid }

\* C19: at the end of the program, a group none of whose benchmarks ran has
\* printed neither a header nor an end, and a group with a benchmark that
\* ran has printed its header once, before the first of its routines ran.
C19_GroupHeaderDeferred ==
    hpc = "done" =>
        \A gid \in 1 .. g.gid :
            IF EventsOf("routine", gid) = {}
            THEN EventsOf("group_start", gid) = {} /\ EventsOf("group_end", gid) = {}
            ELSE /\ Cardinality(EventsOf("group_start", gid)) = 1
                 /\ \A i \in EventsOf("group_start", gid), j \in EventsOf("routine", gid) : i < j

\* C20: with CLI tags given, every routine that ran belongs to a group that
\* carries one of them, for runtime groups and ZAP_GROUP groups alike; with
\* no CLI tag given, the tag filter excludes no group.
C20_TagFilterBeforeRun ==
    Started =>
        /\ Len(cfg.cli_tags) > 0 =>
               \A i \in 1 .. Len(hist.ran) :
                   \E j \in 1 .. Len(cfg.cli_tags), k \in 1 .. Len(hist.ran[i].tags) :
                       cfg.cli_tags[j] = hist.ran[i].tags[k]
        /\ Len(cfg.cli_tags) = 0 => zap_group_matches_tags(cfg, g)

(* ------------------------------------------------------------------ *)
(* Properties of the name filter                                      *)
(* ------------------------------------------------------------------ *)
RECURSIVE RefGlob(_, _)
\* the reference glob rule: '*' stands for any run of characters, the
\* empty one included, '?' for exactly one, any other character for itself
RefGlob(pattern, str) ==
    IF pattern = << >> THEN str = << >>
    ELSE IF Head(pattern) = "*"
         THEN \E k \in 0 .. Len(str) : RefGlob(Tail(pattern), SubSeq(str, k + 1, Len(str)))
    ELSE IF str = << >> THEN FALSE
    ELSE /\ (Head(pattern) = "?" \/ Head(pattern) = Head(str))
         /\ RefGlob(Tail(pattern), Tail(str))

\* pattern occurs in str as a run of consecutive characters, case-sensitively
RefSubstring(pattern, str) ==
    \E i \in 0 .. Len(str) :
        /\ i + Len(pattern) <= Len(str)
        /\ \A k \in 1 .. Len(pattern) : str[i + k] = pattern[k]

HasWildcard(pattern) == \E i \in 1 .. Len(pattern) : pattern[i] \in { "*", "?" }

RefMatches(name, filter) ==
    IF filter.null \/ Len(filter.pattern) = 0 THEN TRUE
    ELSE IF name.null THEN FALSE
    ELSE IF HasWildcard(filter.pattern) THEN RefGlob(filter.pattern, name.text)
    ELSE RefSubstring(filter.pattern, name.text)

\* C21: zap_matches_filter gives the result of the reference matcher for
\* every name and pattern: a null or empty pattern matches every name, a null
\* name matches no non-empty pattern, a pattern without wildcard matches the
\* names it is a case-sensitive substring of, a pattern with a wildcard the
\* names that glob-match it as a whole.
C21_FilterMatchesReference ==
    (hpc = "filter" /\ op.kind = "filter") =>
        op.ret = RefMatches(op.name, op.filter)

C21_Witness ==
    /\ hpc = "filter"
    /\ op.kind = "filter"
    /\ op.filter = [null |-> FALSE, pattern |-> << "*", "a", "b" >>]
    /\ op.name = NameOf(<< "a", "a", "b" >>)
    /\ op.ret

(* ------------------------------------------------------------------ *)
(* Properties of the statistics                                       *)
(* ------------------------------------------------------------------ *)
\* C22: for every sample array of length n >= 1, zap_percentile of the
\* sorted samples with p = 50 returns the value zap_median returns: the
\* middle element for odd n, the average of the two middle ones for even n.
C22_Percentile50IsMedian ==
    (hpc = "stats" /\ op.kind = "stats" /\ op.p = 50) => op.percentile = op.median

(* ------------------------------------------------------------------ *)
(* Properties of the configuration of a run                           *)
(* ------------------------------------------------------------------ *)
ConfigValid(config) ==
    /\ config.warmup_time_ns > 0
    /\ config.measurement_time_ns > 0
    /\ config.sample_count > 0
    /\ config.sample_count >= MIN_SAMPLES

\* C23: the configuration of every zap_t created for a run has a positive
\* warmup time, a positive measurement time and a sample count of at least
\* 10, whatever the group's setters and the --samples, --warmup and --time
\* options were given.
C23_BenchConfigValid ==
    Started => \A i \in 1 .. Len(hist.ran) : ConfigValid(hist.ran[i].config)

(* ------------------------------------------------------------------ *)
(* Properties of the calls of the loop controller                     *)
(* ------------------------------------------------------------------ *)
\* a step is a zap_loop_start call made during warmup: the only call that
\* reads the timer while warmup_complete is false
WarmupStartStep == ~c.warmup_complete /\ reads' = reads + 1

\* the previous batch's elapsed time such a call computes
BatchElapsed == Sub64(clock', c.current_iter)

\* n2 is n multiplied by factor
IsProduct(n2, n, factor) == n2 % factor = 0 /\ n2 \div factor = n

\* the rescaling rule as the claim states it; at batch_elapsed = 0 the
\* factor has no value, and either branch at least doubles N
RescaledAsClaimed(n, elapsed, n2) ==
    IF elapsed = 0 THEN n2 >= 2 * n
    ELSE IF Lt64(elapsed, TARGET_BATCH_NS)
         THEN (IF TARGET_BATCH_NS \div elapsed > 1
               THEN IsProduct(n2, n, TARGET_BATCH_NS \div elapsed)
               ELSE n2 = 2 * n)
    ELSE IF Gt64(elapsed, LONG_BATCH_NS)
         THEN n2 = (IF n \div 2 >= 1 THEN n \div 2 ELSE 1)
    ELSE n2 = n

\* C24 as claimed: every warmup zap_loop_start but the first rescales N from
\* the previous batch's elapsed time: below 1 ms N is multiplied by
\* factor = floor(1 ms / batch_elapsed) if factor > 1 and doubled otherwise,
\* above 10 ms N is halved with a floor of 1, from 1 ms to 10 ms N is
\* unchanged; the first warmup call leaves N unchanged.
C24_WarmupRescaleAsClaimed ==
    [][WarmupStartStep =>
         IF c.start_time = 0 THEN c'.iterations = c.iterations
         ELSE RescaledAsClaimed(c.iterations, BatchElapsed, c'.iterations)]_vars

\* the rule with the cap on the product and with the batch of no elapsed time
RescaledAmended(n, elapsed, n2) ==
    IF elapsed = 0 THEN n2 = n
    ELSE IF Lt64(elapsed, TARGET_BATCH_NS)
         THEN (IF TARGET_BATCH_NS \div elapsed > 1
               THEN (IF n > MAX_ITERATIONS \div (TARGET_BATCH_NS \div elapsed)
                     THEN n2 = MAX_ITERATIONS
                     ELSE IsProduct(n2, n, TARGET_BATCH_NS \div elapsed))
               ELSE n2 = 2 * n)
    ELSE IF Gt64(elapsed, LONG_BATCH_NS)
         THEN n2 = (IF n \div 2 >= 1 THEN n \div 2 ELSE 1)
    ELSE n2 = n

\* C24 amended: as claimed, except that the product N * factor is capped at
\* 10^9 and that a batch of elapsed time 0 leaves N unchanged.
C24_WarmupRescale ==
    [][WarmupStartStep =>
         IF c.start_time = 0 THEN c'.iterations = c.iterations
         ELSE RescaledAmended(c.iterations, BatchElapsed, c'.iterations)]_vars

\* a warmup call has multiplied N by its factor and capped the product
C24_Witness ==
    /\ last_call = "start"
    /\ last_start_warm
    /\ ~c.warmup_complete
    /\ c.iterations = MAX_ITERATIONS

\* C25: a zap_loop_end call made while measuring is false or warmup_complete
\* is false changes nothing: the samples, the sample count, N, start_time
\* and the two flags are as before, and the timer is not read.
C25_LoopEndNoOp ==
    [][(last_call' = "end" /\ (~c.measuring \/ ~c.warmup_complete)) =>
           /\ c'.samples = c.samples
           /\ c'.sample_count = c.sample_count
           /\ c'.iterations = c.iterations
           /\ c'.start_time = c.start_time
           /\ c'.measuring = c.measuring
           /\ c'.warmup_complete = c.warmup_complete
           /\ reads' = reads]_vars

\* zap_loop_end was called during warmup, after N was rescaled
C25_Witness ==
    /\ last_call = "end"
    /\ ~c.warmup_complete
    /\ c.start_time # 0
    /\ c.iterations > 1

\* zap_loop_start has returned false in this run
Done == exit_by # "none"

\* C26: once zap_loop_start has returned false, under a timer that never
\* goes back every later zap_loop_start returns false as well, and no later
\* call changes the stored samples, the sample count or N.
C26_DoneAbsorbing ==
    [][Done =>
         /\ ret' = FALSE
         /\ c'.samples = c.samples
         /\ c'.sample_count = c.sample_count
         /\ c'.iterations = c.iterations]_vars

\* the run ended on the elapsed-time check with room left in the buffer, and
\* zap_loop_start and then zap_loop_end were called again
C26_Witness ==
    /\ pc = "exit"
    /\ exit_by = "time"
    /\ c.sample_count < c.sample_capacity
    /\ false_returns >= 2
    /\ last_call = "end"

\* C27: a second ZAP_LOOP on a state whose run is Done runs no batch and
\* terminates: its first zap_loop_start returns false, and the macro's loops
\* are left at that first false return, with no further call.
C27_SecondLoopTerminates ==
    /\ [](loop_no > 1 => (pc \notin { "body", "end" } /\ false_returns <= 1))
    /\ [][(loop_no > 1 /\ pc = "outer" /\ false_returns >= 1) => pc' = "exit"]_vars

(* ------------------------------------------------------------------ *)
(* Properties of the comparisons of a run                             *)
(* ------------------------------------------------------------------ *)
\* C28: every comparison of a run is made against the entry of the
\* benchmark's name as zap_parse_args loaded it from the baseline file, never
\* against an entry an earlier benchmark of the same run wrote, also when two
\* benchmarks of the run have the same name.
C28_ComparedAgainstLoaded ==
    Started =>
        \A i \in 1 .. Len(hist.ran) :
            hist.ran[i].compared =>
                /\ zap_baseline_find(hist.loaded, hist.ran[i].name) > 0
                /\ hist.ran[i].against
                       = hist.loaded.entries[zap_baseline_find(hist.loaded, hist.ran[i].name)]

\* C29: in every group, setup runs at most once and before the first routine
\* of the group, and the teardown of a group that has a setup hook runs only
\* if its setup ran: a group none of whose benchmarks ran runs neither hook.
\* A group is the current group g in the state its zap_group_finish leaves.
C29_HooksPaired ==
    /\ \A gid \in 1 .. g.gid :
           /\ Cardinality(EventsOf("setup", gid)) <= 1
           /\ \A i \in EventsOf("setup", gid), j \in EventsOf("routine", gid) : i < j
    /\ (g.setup /\ EventsOf("teardown", g.gid) # {}) => EventsOf("setup", g.gid) # {}

(* ------------------------------------------------------------------ *)
(* Properties of the store through its life                           *)
(* ------------------------------------------------------------------ *)
\* C30: after any sequence of zap_baseline_init, zap_baseline_add,
\* zap_baseline_load and zap_baseline_free calls the store holds no more
\* entries than its array has room for, also after an add or a load that
\* follows zap_baseline_free.
C30_CountWithinCapacity == hpc = "store" => baseline.count <= baseline.capacity

====
